---- MODULE Spec2Model ----
(***************************************************************************)
(* Model of the cultural recommendation orchestration engine of            *)
(* src/qloo-client.ts: the Taste-Graph Gateway (QlooClient), the Entity    *)
(* Resolver, the Cross-Domain Connector (CrossDomainDiscoveryEngine), the  *)
(* goal-enhancement orchestrator (CulturalGoalArchitect) and the component *)
(* generator (SmartProjectComponentGenerator).                             *)
(*                                                                         *)
(* Conventions.  An optional JavaScript value is a sequence of length 0    *)
(* (undefined) or 1 (the value).  Affinities are integers in hundredths    *)
(* (0.7 is 70).  The `properties` blob of an entity is passed through      *)
(* untouched by the code and is left out of the entity records.            *)
(***************************************************************************)
EXTENDS Integers, Sequences, FiniteSets, TLC

\* ---------------------------------------------------------------- bounds
MaxInterests == 2
MaxUserEntities == 7
MaxSurpriseUsers == 4
MaxTargets == 6

\* ------------------------------------------------------- optional values
None == <<>>
Some(v) == <<v>>
IsSome(o) == Len(o) > 0
Val(o) == o[1]

\* JavaScript truthiness of an optional string / an optional number
TruthyStr(o) == IsSome(o) /\ Val(o) # ""
TruthyNum(o) == IsSome(o) /\ Val(o) # 0

\* a || b on optional strings and on optional numbers
OrStr(a, b) == IF TruthyStr(a) THEN a ELSE b
OrNum(a, b) == IF TruthyNum(a) THEN a ELSE b

Min(a, b) == IF a <= b THEN a ELSE b

\* Array.prototype.slice(0, n)
Slice(s, n) == SubSeq(s, 1, Min(n, Len(s)))

RECURSIVE Flatten(_)
Flatten(ss) == IF ss = <<>> THEN <<>> ELSE Head(ss) \o Flatten(Tail(ss))

\* a push that puts the new results in front of the accumulator
PushAllFront(accumulator, results) == results \o accumulator

\* accumulator.push(...results)
PushAll(accumulator, results) == accumulator \o results

Count(s, x) == Cardinality({k \in DOMAIN s : s[k] = x})

\* String.prototype.startsWith('urn:tag') over the type strings of the model
TagTypes == {"urn:tag:genre", "urn:tag:keyword"}
StartsWithUrnTag(t) == t \in TagTypes

\* ------------------------------------------------------ program constants
PLACE == "urn:entity:place"
BRAND == "urn:entity:brand"
BOOK == "urn:entity:book"
DESTINATION == "urn:entity:destination"
MOVIE == "urn:entity:movie"
ARTIST == "urn:entity:artist"
PERSON == "urn:entity:person"
PODCAST == "urn:entity:podcast"

DefaultTake == 20
DefaultPage == 1
ResolveUserInterestsTake == 5
ResolveInterestsTake == 3
GoalEntitiesTake == 10
ProjectTake == 10
TargetTake == 20
TagCap == 5
SurpriseUserCap == 3
SurpriseTargetCap == 5
SurpriseThreshold == 70
FallbackLocation == "Brooklyn, NY"
SyntheticStrength == 80
ConnectionCap == 5

\* ------------------------------------------------------------- outcomes
Ok(v) == [ok |-> TRUE, value |-> v]
Err(e) == [ok |-> FALSE, error |-> e]

\* What the upstream service does with one request: a 2xx response with a
\* JSON body, a non-2xx response with a status and a body text, or a
\* transport failure.
HttpOk(body) == [kind |-> "ok", body |-> body]
HttpFail(status, text) == [kind |-> "http", status |-> status, text |-> text]
NetFail == [kind |-> "network"]

\* a makeRequest whose Error leaves out the body text of the response
MakeRequestStatusOnly(outcome) ==
  IF outcome.kind = "ok" THEN Ok(outcome.body)
  ELSE IF outcome.kind = "http"
       THEN Err([kind |-> "Error", status |-> outcome.status, body |-> ""])
       ELSE Err([kind |-> "NetworkError"])

\* QlooClient.makeRequest, the part after the URL is built: the parsed body
\* of a 2xx response, else a thrown Error whose message carries the status
\* and the body text, else the transport error itself.
MakeRequest(outcome) ==
  IF outcome.kind = "ok" THEN Ok(outcome.body)
  ELSE IF outcome.kind = "http"
       THEN Err([kind |-> "Error", status |-> outcome.status, body |-> outcome.text])
       ELSE Err([kind |-> "NetworkError"])

\* ---------------------------------------------------- QlooClient (Gateway)
\* searchEntities: the parameter map handed to makeRequest.  `types` is an
\* optional list, `take` an optional number; the callers of this model pass
\* neither location, radius nor page.
SearchParams(query, types, take) ==
  ("query" :> query)
  @@ ("take" :> Val(OrNum(take, Some(DefaultTake))))
  @@ ("page" :> DefaultPage)
  @@ (IF IsSome(types) /\ Len(Val(types)) > 0
      THEN ("types" :> Val(types)) ELSE <<>>)

\* a mapping that leaves the type empty when the item has no type
SearchItemToEntityUntyped(item) ==
  [id |-> item.entity_id,
   name |-> item.name,
   type |-> IF Len(item.types) > 0 THEN item.types[1] ELSE "",
   affinity |-> item.affinity]

\* searchEntities: one upstream item to one QlooEntity.
SearchItemToEntity(item) ==
  [id |-> item.entity_id,
   name |-> item.name,
   type |-> IF Len(item.types) > 0 /\ item.types[1] # ""
            THEN item.types[1] ELSE "unknown",
   affinity |-> item.affinity]

\* searchEntities: (response.results || []).map(...)
SearchEntitiesResult(body) ==
  IF IsSome(body.results)
  THEN [k \in DOMAIN Val(body.results) |-> SearchItemToEntity(Val(body.results)[k])]
  ELSE <<>>

\* The options object of getInsights; every optional member is an optional
\* value.  The members no orchestrator passes (demographics.audiences,
\* location.radius, filters.tags, filters.rating) are left out.
InsightOptions(filterType, signals, filters, take, explainability) ==
  [filterType |-> filterType, signals |-> signals, filters |-> filters,
   take |-> take, page |-> None, explainability |-> explainability]

Signals(entities, tags, demographics, location) ==
  [entities |-> entities, tags |-> tags,
   demographics |-> demographics, location |-> location]

NoDemographics == None
NoRange == None

SignalParams(sig) ==
  (IF IsSome(sig.entities) /\ Len(Val(sig.entities)) > 0
   THEN ("signal.interests.entities" :> Val(sig.entities)) ELSE <<>>)
  @@ (IF IsSome(sig.tags) /\ Len(Val(sig.tags)) > 0
      THEN ("signal.interests.tags" :> Val(sig.tags)) ELSE <<>>)
  @@ (IF IsSome(sig.demographics)
      THEN (IF TruthyStr(Val(sig.demographics).age)
            THEN ("signal.demographics.age" :> Val(Val(sig.demographics).age))
            ELSE <<>>)
           @@ (IF TruthyStr(Val(sig.demographics).gender)
               THEN ("signal.demographics.gender" :> Val(Val(sig.demographics).gender))
               ELSE <<>>)
      ELSE <<>>)
  @@ (IF IsSome(sig.location)
      THEN (IF TruthyStr(Val(sig.location).query)
            THEN ("signal.location.query" :> Val(Val(sig.location).query))
            ELSE IF TruthyStr(Val(sig.location).coordinates)
                 THEN ("signal.location" :> Val(Val(sig.location).coordinates))
                 ELSE <<>>)
      ELSE <<>>)

RangeParams(prefix, range) ==
  IF IsSome(range)
  THEN (IF IsSome(Val(range).min)
        THEN ((prefix \o ".min") :> Val(Val(range).min)) ELSE <<>>)
       @@ (IF IsSome(Val(range).max)
           THEN ((prefix \o ".max") :> Val(Val(range).max)) ELSE <<>>)
  ELSE <<>>

FilterParams(fil) ==
  (IF TruthyStr(fil.location)
   THEN ("filter.location.query" :> Val(fil.location)) ELSE <<>>)
  @@ RangeParams("filter.price_level", fil.priceLevel)
  @@ RangeParams("filter.popularity", fil.popularity)

\* getInsights: the parameter map handed to makeRequest.
InsightParams(options) ==
  ("filter.type" :> options.filterType)
  @@ ("take" :> Val(OrNum(options.take, Some(DefaultTake))))
  @@ ("page" :> Val(OrNum(options.page, Some(DefaultPage))))
  @@ (IF IsSome(options.signals) THEN SignalParams(Val(options.signals)) ELSE <<>>)
  @@ (IF IsSome(options.filters) THEN FilterParams(Val(options.filters)) ELSE <<>>)
  @@ (IF options.explainability = Some(TRUE)
      THEN ("feature.explainability" :> TRUE) ELSE <<>>)

\* getInsights: one item of results.entities to one QlooEntity.
InsightItemToEntity(item) ==
  [id |-> OrStr(item.entity_id, item.id),
   name |-> item.name,
   type |-> Val(OrStr(OrStr(item.subtype, item.type), Some("unknown"))),
   affinity |-> OrNum(item.queryAffinity, item.affinity)]

\* getInsights: the normalisation of a 2xx body.  body.shape tells what
\* response.results is: "missing", a plain "array", an object whose
\* entities member is not an array ("object"), or an object with an
\* entities array ("entities").
InsightResults(body) ==
  IF body.shape = "entities"
  THEN [k \in DOMAIN body.entities |-> InsightItemToEntity(body.entities[k])]
  ELSE <<>>

\* ------------------------------------------------- the upstream service
\* Items and bodies the upstream service answers with in this model.
ItemPlace ==
  [entity_id |-> Some("e-place"), name |-> "Blue Note",
   types |-> <<PLACE>>, affinity |-> None]
ItemTag ==
  [entity_id |-> Some("t-jazz"), name |-> "jazz",
   types |-> <<"urn:tag:genre", PLACE>>, affinity |-> Some(90)]
ItemUntyped ==
  [entity_id |-> Some("e-misc"), name |-> "misc",
   types |-> <<>>, affinity |-> None]

SearchBodies ==
  {[results |-> None],
   [results |-> Some(<<ItemTag>>)],
   [results |-> Some(<<ItemPlace, ItemUntyped>>)]}

InsightHigh ==
  [entity_id |-> Some("i-high"), id |-> None, name |-> "Gym A",
   subtype |-> Some(PLACE), type |-> None,
   queryAffinity |-> Some(90), affinity |-> None]
InsightMid ==
  [entity_id |-> None, id |-> Some("i-mid"), name |-> "Gym B",
   subtype |-> None, type |-> Some(PLACE),
   queryAffinity |-> None, affinity |-> Some(75)]
InsightLow ==
  [entity_id |-> Some("i-low"), id |-> Some("other"), name |-> "Gym C",
   subtype |-> None, type |-> None,
   queryAffinity |-> None, affinity |-> Some(50)]

InsightBodies ==
  {[shape |-> "missing", entities |-> <<>>],
   [shape |-> "entities", entities |-> <<InsightMid, InsightHigh, InsightLow>>]}

Failures == {HttpFail(403, "Forbidden"), NetFail}

SearchOutcomes == {HttpOk(b) : b \in SearchBodies} \cup Failures
InsightOutcomes == {HttpOk(b) : b \in InsightBodies} \cup Failures

\* Inputs of the orchestrators.
AllInterests == <<"jazz", "yoga", "coffee", "hiking">>
InterestLists == {SubSeq(AllInterests, 1, n) : n \in 0..MaxInterests}
TargetDomains == {"fitness", "business", "travel", "gardening"}
Goals == {"run a marathon"}
ProjectContexts ==
  {[goalCategory |-> "fitness", userLocation |-> Some("Austin, TX")],
   [goalCategory |-> "gardening", userLocation |-> None]}

\* ------------------------------------------------------------------ state
VARIABLES
  op,              \* the orchestrator operation that was invoked
  pc,              \* the position of that operation
  interests,       \* userInterests / userProfile.interests
  targetDomain,    \* discoverUnexpectedConnections: targetDomain
  context,         \* ProjectContext: goalCategory, userLocation
  goal,            \* enhanceGoalWithCulturalInsights: goal
  idx,             \* index of the running for-of loop (1-based)
  userEntities,    \* the resolver's accumulator, then its result
  goalEntities,    \* getGoalRelevantEntities: entities
  targetEntities,  \* getTargetDomainEntities: its result
  connections,     \* findSurpriseConnections / findCrossDomainConnections
  bridges,         \* findDomainBridges: its result
  projects,        \* generateCulturallyAwareProjects: projects
  requests,        \* every request handed to makeRequest, in issue order
  responses,       \* what the upstream answered, in completion order
  result,          \* the value the operation resolved with, if any
  error,           \* the error the operation rejected with, if any
  profile,         \* generateComponentRecommendations: userProfile
  fetches,         \* generateComponentRecommendations: its four category
                   \* fetches, each with its position, its loop index, its
                   \* list and the upstream answers it has received
  overtaken,       \* history: some category fetch has returned while one
                   \* placed before it in the Promise.all array was pending
  args             \* the arguments of the running QlooClient operation

vars == <<op, pc, interests, targetDomain, context, goal, idx, userEntities,
          goalEntities, targetEntities, connections, bridges, projects,
          requests, responses, result, error, profile, fetches, overtaken,
          args>>

componentVars == <<profile, fetches, overtaken>>

Categories == {"venues", "content", "tools", "communities"}

NoProfile ==
  [interests |-> <<>>, demographics |-> None, location |-> None,
   preferences |-> None]

IdleFetch == [pc |-> "idle", idx |-> 1, value |-> <<>>, got |-> <<>>]

inputVars == <<op, interests, targetDomain, context, goal, args>>

Request(endpoint, params) == [endpoint |-> endpoint, params |-> params]

Init ==
  /\ op = "none"
  /\ pc = "idle"
  /\ interests = <<>>
  /\ targetDomain = ""
  /\ context = [goalCategory |-> "", userLocation |-> None]
  /\ goal = ""
  /\ idx = 1
  /\ userEntities = <<>>
  /\ goalEntities = <<>>
  /\ targetEntities = <<>>
  /\ connections = <<>>
  /\ bridges = <<>>
  /\ projects = <<>>
  /\ requests = <<>>
  /\ responses = <<>>
  /\ result = None
  /\ error = None
  /\ profile = NoProfile
  /\ fetches = [c \in Categories |-> IdleFetch]
  /\ overtaken = FALSE
  /\ args = <<>>

\* -------------------------------------------- CrossDomainDiscoveryEngine
\* A caller invokes discoverUnexpectedConnections(userInterests,
\* targetDomain, context); the body runs up to the first await.
DiscoverUnexpectedConnections ==
  /\ pc = "idle"
  /\ \E ints \in InterestLists, dom \in TargetDomains :
       /\ interests' = ints
       /\ targetDomain' = dom
  /\ op' = "discover"
  /\ pc' = "resolveInterests"
  /\ idx' = 1
  /\ UNCHANGED <<componentVars, context, goal, args, userEntities, goalEntities,
                 targetEntities, connections, bridges, projects, requests,
                 responses, result, error>>

\* a resolveInterests that searches with the take of resolveUserInterests
ResolveInterestsStepTakeOfUser ==
  /\ pc = "resolveInterests"
  /\ IF idx <= Len(interests)
     THEN /\ requests' = Append(requests,
                Request("/search",
                        SearchParams(interests[idx], None,
                                     Some(ResolveUserInterestsTake))))
          /\ pc' = "resolveInterestsWait"
     ELSE /\ pc' = "target"
          /\ UNCHANGED requests
  /\ UNCHANGED <<componentVars, inputVars, idx, userEntities, goalEntities, targetEntities,
                 connections, bridges, projects, responses, result, error>>

\* resolveInterests: the next iteration of the loop issues its search, or
\* the loop is over and the accumulator is returned.
ResolveInterestsStep ==
  /\ pc = "resolveInterests"
  /\ IF idx <= Len(interests)
     THEN /\ requests' = Append(requests,
                Request("/search",
                        SearchParams(interests[idx], None, Some(ResolveInterestsTake))))
          /\ pc' = "resolveInterestsWait"
     ELSE /\ pc' = "target"
          /\ UNCHANGED requests
  /\ UNCHANGED <<componentVars, inputVars, idx, userEntities, goalEntities, targetEntities,
                 connections, bridges, projects, responses, result, error>>

\* a resolveInterests that catches a failed search and goes on
ResolveInterestsResumeSkipping ==
  /\ pc = "resolveInterestsWait"
  /\ \E out \in SearchOutcomes :
       /\ responses' = Append(responses, out)
       /\ IF MakeRequest(out).ok
          THEN userEntities' =
                 PushAll(userEntities, SearchEntitiesResult(MakeRequest(out).value))
          ELSE UNCHANGED userEntities
  /\ idx' = idx + 1
  /\ pc' = "resolveInterests"
  /\ UNCHANGED <<componentVars, inputVars, goalEntities, targetEntities, connections,
                 bridges, projects, requests, result, error>>

\* resolveInterests: the awaited search completes; its entities are pushed,
\* or its error leaves resolveInterests and discoverUnexpectedConnections
\* (whose catch logs and rethrows).
ResolveInterestsResume ==
  /\ pc = "resolveInterestsWait"
  /\ \E out \in SearchOutcomes :
       /\ responses' = Append(responses, out)
       /\ IF MakeRequest(out).ok
          THEN /\ userEntities' =
                    PushAll(userEntities, SearchEntitiesResult(MakeRequest(out).value))
               /\ idx' = idx + 1
               /\ pc' = "resolveInterests"
               /\ UNCHANGED error
          ELSE /\ error' = Some(MakeRequest(out).error)
               /\ pc' = "rejected"
               /\ UNCHANGED <<userEntities, idx>>
  /\ UNCHANGED <<componentVars, inputVars, goalEntities, targetEntities, connections,
                 bridges, projects, requests, result>>

\* domainTypeMapping is an object literal, so a lookup by a name that every
\* object inherits from Object.prototype finds that member, which is truthy.
\* Two of those names, each with the text value.toString() gives makeRequest
\* for the member.
ObjectPrototypeMembers ==
  ("constructor" :> "function Object() { [native code] }")
  @@ ("toString" :> "function toString() { [native code] }")

\* a table that sends business to brand
DomainTargetTypeBusinessBrand(domain) ==
  CASE domain = "fitness" -> PLACE
    [] domain = "food" -> PLACE
    [] domain = "travel" -> DESTINATION
    [] domain = "entertainment" -> MOVIE
    [] domain = "music" -> ARTIST
    [] domain = "business" -> BRAND
    [] domain = "creative" -> PLACE
    [] domain = "learning" -> BOOK
    [] domain \in DOMAIN ObjectPrototypeMembers -> ObjectPrototypeMembers[domain]
    [] OTHER -> PLACE

\* getTargetDomainEntities: domainTypeMapping[domain] || ENTITY_TYPES.PLACE
DomainTargetType(domain) ==
  CASE domain = "fitness" -> PLACE
    [] domain = "food" -> PLACE
    [] domain = "travel" -> DESTINATION
    [] domain = "entertainment" -> MOVIE
    [] domain = "music" -> ARTIST
    [] domain = "business" -> PLACE
    [] domain = "creative" -> PLACE
    [] domain = "learning" -> BOOK
    [] domain \in DOMAIN ObjectPrototypeMembers -> ObjectPrototypeMembers[domain]
    [] OTHER -> PLACE

\* getTargetDomainEntities: the two filters over the resolved entities
IsRealEntity(e) == e.type # "" /\ ~StartsWithUrnTag(e.type)
IsTagEntity(e) == e.type # "" /\ StartsWithUrnTag(e.type)
RealEntities(entities) == SelectSeq(entities, IsRealEntity)
TagEntities(entities) == SelectSeq(entities, IsTagEntity)
TagIds(entities) ==
  [k \in DOMAIN TagEntities(entities) |-> TagEntities(entities)[k].id]

\* a getTargetDomainEntities that looks for tag entities before it looks
\* for real ones
TargetQueryTagsFirst(domain, entities) ==
  IF Len(TagIds(entities)) > 0
  THEN InsightOptions(DomainTargetType(domain),
         Some(Signals(None, Some(Slice(TagIds(entities), TagCap)), None, None)),
         None, Some(TargetTake), Some(TRUE))
  ELSE IF Len(RealEntities(entities)) = 0
       THEN InsightOptions(DomainTargetType(domain),
              Some(Signals(None, None, None,
                           Some([query |-> Some(FallbackLocation), coordinates |-> None]))),
              None, Some(TargetTake), None)
       ELSE InsightOptions(DomainTargetType(domain), None, None,
                           Some(TargetTake), None)

\* a getTargetDomainEntities that signals on every tag id
TargetQueryUncapped(domain, entities) ==
  IF Len(RealEntities(entities)) = 0
  THEN InsightOptions(DomainTargetType(domain),
         Some(Signals(None, None, None,
                      Some([query |-> Some(FallbackLocation), coordinates |-> None]))),
         None, Some(TargetTake), None)
  ELSE IF Len(TagIds(entities)) > 0
       THEN InsightOptions(DomainTargetType(domain),
              Some(Signals(None, Some(TagIds(entities)), None, None)),
              None, Some(TargetTake), Some(TRUE))
       ELSE InsightOptions(DomainTargetType(domain), None, None,
                           Some(TargetTake), None)

\* getTargetDomainEntities: the options of the one getInsights call it makes
TargetQuery(domain, entities) ==
  IF Len(RealEntities(entities)) = 0
  THEN InsightOptions(DomainTargetType(domain),
         Some(Signals(None, None, None,
                      Some([query |-> Some(FallbackLocation), coordinates |-> None]))),
         None, Some(TargetTake), None)
  ELSE IF Len(TagIds(entities)) > 0
       THEN InsightOptions(DomainTargetType(domain),
              Some(Signals(None, Some(Slice(TagIds(entities), TagCap)), None, None)),
              None, Some(TargetTake), Some(TRUE))
       ELSE InsightOptions(DomainTargetType(domain), None, None,
                           Some(TargetTake), None)

\* getTargetDomainEntities up to its await: the getInsights call is issued.
GetTargetDomainEntities ==
  /\ pc = "target"
  /\ requests' = Append(requests,
        Request("/v2/insights", InsightParams(TargetQuery(targetDomain, userEntities))))
  /\ pc' = "targetWait"
  /\ UNCHANGED <<componentVars, inputVars, idx, userEntities, goalEntities, targetEntities,
                 connections, bridges, projects, responses, result, error>>

\* a getTargetDomainEntities that degrades a failed call to an empty list
GetTargetDomainEntitiesResumeDegrading ==
  /\ pc = "targetWait"
  /\ \E out \in InsightOutcomes :
       /\ responses' = Append(responses, out)
       /\ targetEntities' = IF MakeRequest(out).ok
                            THEN InsightResults(MakeRequest(out).value)
                            ELSE <<>>
  /\ pc' = "surprise"
  /\ UNCHANGED <<componentVars, inputVars, idx, userEntities, goalEntities, connections,
                 bridges, projects, requests, result, error>>

\* a getTargetDomainEntities that issues its getInsights call a second time
\* when the first attempt fails
GetTargetDomainEntitiesResumeRetrying ==
  /\ pc = "targetWait"
  /\ \E out \in InsightOutcomes :
       /\ responses' = Append(responses, out)
       /\ IF MakeRequest(out).ok
          THEN /\ targetEntities' = InsightResults(MakeRequest(out).value)
               /\ pc' = "surprise"
               /\ UNCHANGED <<error, requests>>
          ELSE IF Len(SelectSeq(requests, LAMBDA r : r.endpoint = "/v2/insights")) < 2
               THEN /\ requests' = Append(requests, requests[Len(requests)])
                    /\ UNCHANGED <<pc, error, targetEntities>>
               ELSE /\ error' = Some(MakeRequest(out).error)
                    /\ pc' = "rejected"
                    /\ UNCHANGED <<targetEntities, requests>>
  /\ UNCHANGED <<componentVars, inputVars, idx, userEntities, goalEntities, connections,
                 bridges, projects, result>>

\* getTargetDomainEntities: the awaited getInsights completes; the
\* normalised results are returned, or the error leaves
\* getTargetDomainEntities and discoverUnexpectedConnections.
GetTargetDomainEntitiesResume ==
  /\ pc = "targetWait"
  /\ \E out \in InsightOutcomes :
       /\ responses' = Append(responses, out)
       /\ IF MakeRequest(out).ok
          THEN /\ targetEntities' = InsightResults(MakeRequest(out).value)
               /\ pc' = "surprise"
               /\ UNCHANGED error
          ELSE /\ error' = Some(MakeRequest(out).error)
               /\ pc' = "rejected"
               /\ UNCHANGED targetEntities
  /\ UNCHANGED <<componentVars, inputVars, idx, userEntities, goalEntities, connections,
                 bridges, projects, requests, result>>

\* findSurpriseConnections: the record pushed for one pair
SurpriseConnection(u, t) ==
  [fromInterest |-> u.name,
   toRecommendation |-> t,
   connectionStrength |-> Val(t.affinity),
   explanation |-> "People who like " \o u.name \o " often also enjoy " \o t.name]

\* a threshold test that also keeps an affinity of exactly 0.7
IsStrongTargetInclusive(t) ==
  TruthyNum(t.affinity) /\ Val(t.affinity) >= SurpriseThreshold

\* findSurpriseConnections: targetEntity.affinity && targetEntity.affinity > 0.7
IsStrongTarget(t) == TruthyNum(t.affinity) /\ Val(t.affinity) > SurpriseThreshold

\* findSurpriseConnections: the inner loop for one user entity
ConnectionsFrom(u, targets) ==
  [k \in DOMAIN SelectSeq(targets, IsStrongTarget) |->
     SurpriseConnection(u, SelectSeq(targets, IsStrongTarget)[k])]

\* findSurpriseConnections: the list built by the two loops, before the sort
EmittedConnections(users, targets) ==
  Flatten([k \in DOMAIN Slice(users, SurpriseUserCap) |->
             ConnectionsFrom(users[k], Slice(targets, SurpriseTargetCap))])

\* Array.prototype.sort((a, b) => b.connectionStrength - a.connectionStrength):
\* a stable sort, so x goes after every record at least as strong as it.
InsertByStrength(sorted, x) ==
  LET before == SelectSeq(sorted, LAMBDA y : y.connectionStrength >= x.connectionStrength)
      after == SelectSeq(sorted, LAMBDA y : y.connectionStrength < x.connectionStrength)
  IN before \o <<x>> \o after

RECURSIVE SortByStrengthFrom(_, _)
SortByStrengthFrom(sorted, rest) ==
  IF rest = <<>> THEN sorted
  ELSE SortByStrengthFrom(InsertByStrength(sorted, Head(rest)), Tail(rest))

\* a findSurpriseConnections that returns the list as the loops built it
SortByStrengthOmitted(s) == s

SortByStrength(s) == SortByStrengthFrom(<<>>, s)

FindSurpriseConnectionsResult(users, targets) ==
  SortByStrength(EmittedConnections(users, targets))

\* findSurpriseConnections, awaited by discoverUnexpectedConnections
FindSurpriseConnections ==
  /\ pc = "surprise"
  /\ connections' = FindSurpriseConnectionsResult(userEntities, targetEntities)
  /\ pc' = "bridges"
  /\ UNCHANGED <<componentVars, inputVars, idx, userEntities, goalEntities, targetEntities,
                 bridges, projects, requests, responses, result, error>>

\* Array.prototype.join(', ')
RECURSIVE JoinStrings(_, _)
JoinStrings(s, sep) ==
  IF s = <<>> THEN ""
  ELSE IF Len(s) = 1 THEN s[1]
  ELSE s[1] \o sep \o JoinStrings(Tail(s), sep)

\* a findDomainBridges that emits no bridge when there are no interests
FindDomainBridgesWhenInterests(userInterests, domain) ==
  IF userInterests = <<>> THEN <<>>
  ELSE <<[domain1 |-> "user_interests",
          domain2 |-> domain,
          bridgeEntities |-> <<>>,
          insights |-> <<"Bridge found between " \o JoinStrings(userInterests, ", ")
                           \o " and " \o domain \o " domain",
                         "Cultural connections exist across these domains",
                         "Consider exploring crossover opportunities">>]>>

FindDomainBridgesResult(userInterests, domain) ==
  <<[domain1 |-> "user_interests",
     domain2 |-> domain,
     bridgeEntities |-> <<>>,
     insights |-> <<"Bridge found between " \o JoinStrings(userInterests, ", ")
                      \o " and " \o domain \o " domain",
                    "Cultural connections exist across these domains",
                    "Consider exploring crossover opportunities">>]>>

\* findDomainBridges, awaited by discoverUnexpectedConnections
FindDomainBridges ==
  /\ pc = "bridges"
  /\ bridges' = FindDomainBridgesResult(interests, targetDomain)
  /\ pc' = "trending"
  /\ UNCHANGED <<componentVars, inputVars, idx, userEntities, goalEntities, targetEntities,
                 connections, projects, requests, responses, result, error>>

\* a getTrendingCrossovers that returns one synthetic entity for the
\* domains of its table
GetTrendingCrossoversResultSynthetic(domain) ==
  IF domain \in {"fitness", "food", "travel", "entertainment", "music",
                 "business", "creative", "learning"}
  THEN <<[id |-> Some("trending"), name |-> "trending", type |-> PLACE,
          affinity |-> None]>>
  ELSE <<>>

GetTrendingCrossoversResult(domain) == <<>>

\* getTrendingCrossovers, awaited by discoverUnexpectedConnections, and the
\* return of the result object
GetTrendingCrossovers ==
  /\ pc = "trending"
  /\ result' = Some([surpriseConnections |-> connections,
                     domainBridges |-> bridges,
                     trendingCrossOvers |-> GetTrendingCrossoversResult(targetDomain)])
  /\ pc' = "resolved"
  /\ UNCHANGED <<componentVars, inputVars, idx, userEntities, goalEntities, targetEntities,
                 connections, bridges, projects, requests, responses, error>>

Discover ==
  \/ DiscoverUnexpectedConnections
  \/ ResolveInterestsStep
  \/ ResolveInterestsResume
  \/ GetTargetDomainEntities
  \/ GetTargetDomainEntitiesResume
  \/ FindSurpriseConnections
  \/ FindDomainBridges
  \/ GetTrendingCrossovers

\* ------------------------------------------------- CulturalGoalArchitect
\* A caller invokes enhanceGoalWithCulturalInsights(goal, userProfile,
\* context); the body runs up to the first await.
EnhanceGoalWithCulturalInsights ==
  /\ pc = "idle"
  /\ \E g \in Goals, ints \in InterestLists, ctx \in ProjectContexts :
       /\ goal' = g
       /\ interests' = ints
       /\ context' = ctx
  /\ op' = "enhance"
  /\ pc' = "resolveUserInterests"
  /\ idx' = 1
  /\ UNCHANGED <<componentVars, targetDomain, args, userEntities, goalEntities,
                 targetEntities, connections, bridges, projects, requests,
                 responses, result, error>>

\* resolveUserInterests: the next iteration of the loop issues its search,
\* or the loop is over and the accumulator is returned.
ResolveUserInterestsStep ==
  /\ pc = "resolveUserInterests"
  /\ IF idx <= Len(interests)
     THEN /\ requests' = Append(requests,
                Request("/search",
                        SearchParams(interests[idx], None, Some(ResolveUserInterestsTake))))
          /\ pc' = "resolveUserInterestsWait"
          /\ UNCHANGED idx
     ELSE /\ pc' = "goalEntities"
          /\ idx' = 1
          /\ UNCHANGED requests
  /\ UNCHANGED <<componentVars, inputVars, userEntities, goalEntities, targetEntities,
                 connections, bridges, projects, responses, result, error>>

\* resolveUserInterests: the awaited search completes; its entities are
\* pushed, or its error leaves resolveUserInterests and
\* enhanceGoalWithCulturalInsights (whose catch logs and rethrows).
ResolveUserInterestsResume ==
  /\ pc = "resolveUserInterestsWait"
  /\ \E out \in SearchOutcomes :
       /\ responses' = Append(responses, out)
       /\ IF MakeRequest(out).ok
          THEN /\ userEntities' =
                    PushAll(userEntities, SearchEntitiesResult(MakeRequest(out).value))
               /\ idx' = idx + 1
               /\ pc' = "resolveUserInterests"
               /\ UNCHANGED error
          ELSE /\ error' = Some(MakeRequest(out).error)
               /\ pc' = "rejected"
               /\ UNCHANGED <<userEntities, idx>>
  /\ UNCHANGED <<componentVars, inputVars, goalEntities, targetEntities, connections,
                 bridges, projects, requests, result>>

\* the mapping without its || [PLACE] default: a category outside the table
\* has no entity type and no query is made for it
GoalEntityTypesUndefaulted(category) ==
  CASE category = "fitness" -> <<PLACE, BRAND, BOOK>>
    [] category = "business" -> <<BRAND, BOOK, PERSON>>
    [] category = "travel" -> <<DESTINATION, PLACE, BOOK>>
    [] category = "learning" -> <<BOOK, PODCAST, PERSON>>
    [] category = "creative" -> <<ARTIST, BOOK, MOVIE>>
    [] category = "social" -> <<PLACE, BRAND, DESTINATION>>
    [] OTHER -> <<>>

\* getGoalRelevantEntities: goalEntityMapping[context.goalCategory] || [PLACE]
GoalEntityTypes(category) ==
  CASE category = "fitness" -> <<PLACE, BRAND, BOOK>>
    [] category = "business" -> <<BRAND, BOOK, PERSON>>
    [] category = "travel" -> <<DESTINATION, PLACE, BOOK>>
    [] category = "learning" -> <<BOOK, PODCAST, PERSON>>
    [] category = "creative" -> <<ARTIST, BOOK, MOVIE>>
    [] category = "social" -> <<PLACE, BRAND, DESTINATION>>
    [] OTHER -> <<PLACE>>

\* the loop without its { take: 10 }: searchEntities falls back to its
\* default take
GetGoalRelevantEntitiesStepDefaultTake ==
  /\ pc = "goalEntities"
  /\ IF idx <= Len(GoalEntityTypes(context.goalCategory))
     THEN /\ requests' = Append(requests,
                Request("/search",
                        SearchParams(goal,
                                     Some(<<GoalEntityTypes(context.goalCategory)[idx]>>),
                                     None)))
          /\ pc' = "goalEntitiesWait"
     ELSE /\ pc' = "connections"
          /\ UNCHANGED requests
  /\ UNCHANGED <<componentVars, inputVars, idx, userEntities, goalEntities, targetEntities,
                 connections, bridges, projects, responses, result, error>>

\* getGoalRelevantEntities: the next entity type's search is issued, or the
\* loop is over and the entities are returned.
GetGoalRelevantEntitiesStep ==
  /\ pc = "goalEntities"
  /\ IF idx <= Len(GoalEntityTypes(context.goalCategory))
     THEN /\ requests' = Append(requests,
                Request("/search",
                        SearchParams(goal,
                                     Some(<<GoalEntityTypes(context.goalCategory)[idx]>>),
                                     Some(GoalEntitiesTake))))
          /\ pc' = "goalEntitiesWait"
     ELSE /\ pc' = "connections"
          /\ UNCHANGED requests
  /\ UNCHANGED <<componentVars, inputVars, idx, userEntities, goalEntities, targetEntities,
                 connections, bridges, projects, responses, result, error>>

\* getGoalRelevantEntities: the awaited search completes.
GetGoalRelevantEntitiesResume ==
  /\ pc = "goalEntitiesWait"
  /\ \E out \in SearchOutcomes :
       /\ responses' = Append(responses, out)
       /\ IF MakeRequest(out).ok
          THEN /\ goalEntities' =
                    PushAll(goalEntities, SearchEntitiesResult(MakeRequest(out).value))
               /\ idx' = idx + 1
               /\ pc' = "goalEntities"
               /\ UNCHANGED error
          ELSE /\ error' = Some(MakeRequest(out).error)
               /\ pc' = "rejected"
               /\ UNCHANGED <<goalEntities, idx>>
  /\ UNCHANGED <<componentVars, inputVars, userEntities, targetEntities, connections,
                 bridges, projects, requests, result>>

FindCrossDomainConnectionsResult(users, goals) ==
  IF Len(users) > 0 /\ Len(goals) > 0
  THEN <<[from |-> "user_interests",
          to |-> "goal_domain",
          connection |-> Slice(goals, ConnectionCap),
          strength |-> SyntheticStrength]>>
  ELSE <<>>

\* findCrossDomainConnections, awaited by enhanceGoalWithCulturalInsights
FindCrossDomainConnections ==
  /\ pc = "connections"
  /\ connections' = FindCrossDomainConnectionsResult(userEntities, goalEntities)
  /\ pc' = "projects"
  /\ idx' = 1
  /\ UNCHANGED <<componentVars, inputVars, userEntities, goalEntities, targetEntities,
                 bridges, projects, requests, responses, result, error>>

ProjectTypes == <<"discovery", "execution", "community", "learning">>

\* projectType.charAt(0).toUpperCase() + projectType.slice(1) + " Project"
ProjectName(projectType) ==
  CASE projectType = "discovery" -> "Discovery Project"
    [] projectType = "execution" -> "Execution Project"
    [] projectType = "community" -> "Community Project"
    [] projectType = "learning" -> "Learning Project"

RECURSIVE SumAffinity(_)
SumAffinity(entities) ==
  IF entities = <<>> THEN 0
  ELSE Val(OrNum(Head(entities).affinity, Some(0))) + SumAffinity(Tail(entities))

\* an average over the entities that have an affinity only
CalculateAverageAffinityOverPresent(entities) ==
  IF Len(SelectSeq(entities, LAMBDA e : IsSome(e.affinity))) = 0
  THEN [num |-> 0, den |-> 1]
  ELSE [num |-> SumAffinity(entities),
        den |-> Len(SelectSeq(entities, LAMBDA e : IsSome(e.affinity)))]

\* calculateAverageAffinity: the quotient total / entities.length, kept as
\* the exact fraction num / den (num in hundredths).
CalculateAverageAffinity(entities) ==
  IF Len(entities) = 0 THEN [num |-> 0, den |-> 1]
  ELSE [num |-> SumAffinity(entities), den |-> Len(entities)]

\* generateCulturallyAwareProjects: the options of each getInsights call
ProjectQuery(users, ctx) ==
  InsightOptions(PLACE,
    Some(Signals(Some([k \in DOMAIN Slice(users, 3) |-> users[k].id]), None, None,
                 IF TruthyStr(ctx.userLocation)
                 THEN Some([query |-> ctx.userLocation, coordinates |-> None])
                 ELSE None)),
    None, Some(ProjectTake), None)

\* a loop over the first three project types only
GenerateCulturallyAwareProjectsStepThree ==
  /\ pc = "projects"
  /\ IF idx <= 3
     THEN /\ requests' = Append(requests,
                Request("/v2/insights", InsightParams(ProjectQuery(userEntities, context))))
          /\ pc' = "projectsWait"
          /\ UNCHANGED result
     ELSE /\ result' = Some([culturalRecommendations |-> goalEntities,
                             personalizedProjects |-> projects,
                             crossDomainConnections |-> connections])
          /\ pc' = "resolved"
          /\ UNCHANGED requests
  /\ UNCHANGED <<componentVars, inputVars, idx, userEntities, goalEntities, targetEntities,
                 connections, bridges, projects, responses, error>>

\* generateCulturallyAwareProjects: the next project type's getInsights is
\* issued, or the loop is over, the projects are returned and
\* enhanceGoalWithCulturalInsights returns its result object.
GenerateCulturallyAwareProjectsStep ==
  /\ pc = "projects"
  /\ IF idx <= Len(ProjectTypes)
     THEN /\ requests' = Append(requests,
                Request("/v2/insights", InsightParams(ProjectQuery(userEntities, context))))
          /\ pc' = "projectsWait"
          /\ UNCHANGED result
     ELSE /\ result' = Some([culturalRecommendations |-> goalEntities,
                             personalizedProjects |-> projects,
                             crossDomainConnections |-> connections])
          /\ pc' = "resolved"
          /\ UNCHANGED requests
  /\ UNCHANGED <<componentVars, inputVars, idx, userEntities, goalEntities, targetEntities,
                 connections, bridges, projects, responses, error>>

\* a generateCulturallyAwareProjects without the try/catch in its loop
GenerateCulturallyAwareProjectsResumeThrowing ==
  /\ pc = "projectsWait"
  /\ \E out \in InsightOutcomes :
       /\ responses' = Append(responses, out)
       /\ IF MakeRequest(out).ok
          THEN /\ projects' = Append(projects,
                    [projectName |-> ProjectName(ProjectTypes[idx]),
                     culturalAlignment |-> InsightResults(MakeRequest(out).value),
                     affinityScore |->
                       CalculateAverageAffinity(InsightResults(MakeRequest(out).value))])
               /\ idx' = idx + 1
               /\ pc' = "projects"
               /\ UNCHANGED error
          ELSE /\ error' = Some(MakeRequest(out).error)
               /\ pc' = "rejected"
               /\ UNCHANGED <<projects, idx>>
  /\ UNCHANGED <<componentVars, inputVars, userEntities, goalEntities, targetEntities,
                 connections, bridges, requests, result>>

\* generateCulturallyAwareProjects: the awaited getInsights completes; a
\* project is pushed, or the error is caught and logged inside the loop.
GenerateCulturallyAwareProjectsResume ==
  /\ pc = "projectsWait"
  /\ \E out \in InsightOutcomes :
       /\ responses' = Append(responses, out)
       /\ IF MakeRequest(out).ok
          THEN projects' = Append(projects,
                 [projectName |-> ProjectName(ProjectTypes[idx]),
                  culturalAlignment |-> InsightResults(MakeRequest(out).value),
                  affinityScore |->
                    CalculateAverageAffinity(InsightResults(MakeRequest(out).value))])
          ELSE UNCHANGED projects
  /\ idx' = idx + 1
  /\ pc' = "projects"
  /\ UNCHANGED <<componentVars, inputVars, userEntities, goalEntities, targetEntities,
                 connections, bridges, requests, result, error>>

Enhance ==
  \/ EnhanceGoalWithCulturalInsights
  \/ ResolveUserInterestsStep
  \/ ResolveUserInterestsResume
  \/ GetGoalRelevantEntitiesStep
  \/ GetGoalRelevantEntitiesResume
  \/ FindCrossDomainConnections
  \/ GenerateCulturallyAwareProjectsStep
  \/ GenerateCulturallyAwareProjectsResume

\* ---------------------------------------- SmartProjectComponentGenerator
\* createUserTasteProfile
CreateUserTasteProfile(data) ==
  [interests |-> data.interests,
   demographics |-> Some([age |-> data.age, gender |-> data.gender]),
   location |-> Some([query |-> data.location, coordinates |-> data.coordinates]),
   preferences |-> Some([priceLevel |-> data.priceRange, popularity |-> None])]

\* The profiles generateComponentRecommendations is called with.
ProfileData ==
  {[interests |-> ints, age |-> d.age, gender |-> d.gender,
    location |-> d.location, coordinates |-> d.coordinates,
    priceRange |-> d.priceRange] :
     ints \in InterestLists,
     d \in {[age |-> None, gender |-> None, location |-> None,
             coordinates |-> None, priceRange |-> None],
            [age |-> Some("25_to_29"), gender |-> Some("female"),
             location |-> None, coordinates |-> Some("40.7,-74.0"),
             priceRange |-> Some([min |-> Some(1), max |-> None])]}}

Profiles == {CreateUserTasteProfile(d) : d \in ProfileData}

\* userProfile.preferences?.priceLevel, userProfile.preferences?.popularity
PreferredPriceLevel(userProfile) ==
  IF IsSome(userProfile.preferences)
  THEN Val(userProfile.preferences).priceLevel ELSE None
PreferredPopularity(userProfile) ==
  IF IsSome(userProfile.preferences)
  THEN Val(userProfile.preferences).popularity ELSE None

\* a venue query that sends every interest of the profile
VenueQueryAllInterests(userProfile, ctx) ==
  InsightOptions(PLACE,
    Some(Signals(Some(userProfile.interests), None,
                 userProfile.demographics, userProfile.location)),
    Some([location |-> ctx.userLocation,
          priceLevel |-> PreferredPriceLevel(userProfile),
          popularity |-> PreferredPopularity(userProfile)]),
    Some(15), None)

\* getVenueRecommendations: the options of its getInsights call
VenueQuery(userProfile, ctx) ==
  InsightOptions(PLACE,
    Some(Signals(Some(Slice(userProfile.interests, 5)), None,
                 userProfile.demographics, userProfile.location)),
    Some([location |-> ctx.userLocation,
          priceLevel |-> PreferredPriceLevel(userProfile),
          popularity |-> PreferredPopularity(userProfile)]),
    Some(15), None)

ContentTypes == <<BOOK, PODCAST, MOVIE>>

\* getContentRecommendations: the options of the call for one content type
ContentQuery(contentType, userProfile) ==
  InsightOptions(contentType,
    Some(Signals(Some(Slice(userProfile.interests, 5)), None,
                 userProfile.demographics, None)),
    None, Some(5), None)

\* getToolRecommendations: the options of its getInsights call
ToolQuery(userProfile) ==
  InsightOptions(BRAND,
    Some(Signals(Some(Slice(userProfile.interests, 5)), None,
                 userProfile.demographics, None)),
    None, Some(10), None)

\* getCommunityRecommendations: the options of its getInsights call
CommunityQuery(userProfile) ==
  InsightOptions(DESTINATION,
    Some(Signals(Some(Slice(userProfile.interests, 5)), None, None,
                 userProfile.location)),
    None, Some(10), None)

\* A caller invokes generateComponentRecommendations(projectType,
\* userProfile, context) (projectType is used by none of the queries): the
\* four get*Recommendations calls run, in array order, up to their first
\* await, each issuing its getInsights request; Promise.all then waits.
GenerateComponentRecommendations ==
  /\ pc = "idle"
  /\ \E up \in Profiles, ctx \in ProjectContexts :
       /\ profile' = up
       /\ context' = ctx
       /\ requests' = requests \o
            <<Request("/v2/insights", InsightParams(VenueQuery(up, ctx))),
              Request("/v2/insights", InsightParams(ContentQuery(ContentTypes[1], up))),
              Request("/v2/insights", InsightParams(ToolQuery(up))),
              Request("/v2/insights", InsightParams(CommunityQuery(up)))>>
  /\ op' = "components"
  /\ pc' = "join"
  /\ fetches' = [c \in Categories |-> [IdleFetch EXCEPT !.pc = "waiting"]]
  /\ overtaken' = FALSE
  /\ UNCHANGED <<interests, targetDomain, goal, args, idx, userEntities,
                 goalEntities, targetEntities, connections, bridges, projects,
                 responses, result, error>>

\* the position of each category's promise in the Promise.all array
Position == [venues |-> 1, content |-> 2, tools |-> 3, communities |-> 4]

\* the category's fetch returns while a promise placed before it in the
\* array is still pending
Overtakes(category) ==
  \E d \in Categories :
    Position[d] < Position[category] /\ fetches[d].pc = "waiting"

\* a get*Recommendations whose single getInsights call sits in a try/catch:
\* the normalised results are returned, or the error is caught and []
\* returned
CaughtFetch(fetch, out) ==
  [pc |-> "done",
   idx |-> fetch.idx,
   value |-> IF MakeRequest(out).ok
             THEN InsightResults(MakeRequest(out).value) ELSE <<>>,
   got |-> Append(fetch.got, out)]

\* a getVenueRecommendations without its try/catch: the error leaves it and
\* rejects the Promise.all of generateComponentRecommendations
GetVenueRecommendationsResumeThrowing ==
  /\ fetches["venues"].pc = "waiting"
  /\ pc = "join"
  /\ \E out \in InsightOutcomes :
       /\ fetches' = [fetches EXCEPT !["venues"] = CaughtFetch(@, out)]
       /\ IF MakeRequest(out).ok
          THEN UNCHANGED <<pc, error>>
          ELSE /\ pc' = "rejected"
               /\ error' = Some(MakeRequest(out).error)
  /\ UNCHANGED <<inputVars, profile, overtaken, idx, userEntities,
                 goalEntities, targetEntities, connections, bridges, projects,
                 requests, responses, result>>

\* getVenueRecommendations: its awaited getInsights completes.
GetVenueRecommendationsResume ==
  /\ fetches["venues"].pc = "waiting"
  /\ \E out \in InsightOutcomes :
       fetches' = [fetches EXCEPT !["venues"] = CaughtFetch(@, out)]
  /\ overtaken' = (overtaken \/ Overtakes("venues"))
  /\ UNCHANGED <<inputVars, pc, profile, idx, userEntities, goalEntities,
                 targetEntities, connections, bridges, projects, requests,
                 responses, result, error>>

\* getToolRecommendations: its awaited getInsights completes.
GetToolRecommendationsResume ==
  /\ fetches["tools"].pc = "waiting"
  /\ \E out \in InsightOutcomes :
       fetches' = [fetches EXCEPT !["tools"] = CaughtFetch(@, out)]
  /\ overtaken' = (overtaken \/ Overtakes("tools"))
  /\ UNCHANGED <<inputVars, pc, profile, idx, userEntities, goalEntities,
                 targetEntities, connections, bridges, projects, requests,
                 responses, result, error>>

\* getCommunityRecommendations: its awaited getInsights completes.
GetCommunityRecommendationsResume ==
  /\ fetches["communities"].pc = "waiting"
  /\ \E out \in InsightOutcomes :
       fetches' = [fetches EXCEPT !["communities"] = CaughtFetch(@, out)]
  /\ overtaken' = (overtaken \/ Overtakes("communities"))
  /\ UNCHANGED <<inputVars, pc, profile, idx, userEntities, goalEntities,
                 targetEntities, connections, bridges, projects, requests,
                 responses, result, error>>

\* a content loop that returns at the first failed content type
GetContentRecommendationsResumeStopping ==
  /\ fetches["content"].pc = "waiting"
  /\ \E out \in InsightOutcomes :
       /\ fetches' = [fetches EXCEPT !["content"] =
            [pc |-> IF @.idx < Len(ContentTypes) /\ MakeRequest(out).ok
                    THEN "waiting" ELSE "done",
             idx |-> @.idx + 1,
             value |-> IF MakeRequest(out).ok
                       THEN PushAll(@.value, InsightResults(MakeRequest(out).value))
                       ELSE @.value,
             got |-> Append(@.got, out)]]
       /\ requests' =
            IF fetches["content"].idx < Len(ContentTypes) /\ MakeRequest(out).ok
            THEN Append(requests,
                   Request("/v2/insights",
                           InsightParams(ContentQuery(ContentTypes[fetches["content"].idx + 1],
                                                      profile))))
            ELSE requests
       /\ overtaken' = (overtaken \/ (fetches'["content"].pc = "done"
                                       /\ Overtakes("content")))
  /\ UNCHANGED <<inputVars, pc, profile, idx, userEntities, goalEntities,
                 targetEntities, connections, bridges, projects, responses,
                 result, error>>

\* getContentRecommendations: the awaited getInsights of the current
\* content type completes; its results are pushed, or its error is caught
\* inside the loop; the loop then issues the next type's call or returns.
GetContentRecommendationsResume ==
  /\ fetches["content"].pc = "waiting"
  /\ \E out \in InsightOutcomes :
       fetches' = [fetches EXCEPT !["content"] =
         [pc |-> IF @.idx < Len(ContentTypes) THEN "waiting" ELSE "done",
          idx |-> @.idx + 1,
          value |-> IF MakeRequest(out).ok
                    THEN PushAll(@.value, InsightResults(MakeRequest(out).value))
                    ELSE @.value,
          got |-> Append(@.got, out)]]
  /\ requests' =
       IF fetches["content"].idx < Len(ContentTypes)
       THEN Append(requests,
              Request("/v2/insights",
                      InsightParams(ContentQuery(ContentTypes[fetches["content"].idx + 1],
                                                 profile))))
       ELSE requests
  /\ overtaken' = (overtaken \/ (fetches["content"].idx = Len(ContentTypes)
                                  /\ Overtakes("content")))
  /\ UNCHANGED <<inputVars, pc, profile, idx, userEntities, goalEntities,
                 targetEntities, connections, bridges, projects, responses,
                 result, error>>

\* a join that settles as soon as one fetch has returned (Promise.race in
\* place of Promise.all): the other lists are read before they are complete
ComponentRecommendationsJoinEarly ==
  /\ pc = "join"
  /\ \E c \in Categories : fetches[c].pc = "done"
  /\ result' = Some([venues |-> fetches["venues"].value,
                     content |-> fetches["content"].value,
                     tools |-> fetches["tools"].value,
                     communities |-> fetches["communities"].value])
  /\ pc' = "resolved"
  /\ UNCHANGED <<componentVars, inputVars, idx, userEntities, goalEntities,
                 targetEntities, connections, bridges, projects, requests,
                 responses, error>>

\* generateComponentRecommendations: Promise.all is fulfilled once the four
\* fetches have returned; their lists are destructured by position.
ComponentRecommendationsJoin ==
  /\ pc = "join"
  /\ \A c \in Categories : fetches[c].pc = "done"
  /\ result' = Some([venues |-> fetches["venues"].value,
                     content |-> fetches["content"].value,
                     tools |-> fetches["tools"].value,
                     communities |-> fetches["communities"].value])
  /\ pc' = "resolved"
  /\ UNCHANGED <<componentVars, inputVars, idx, userEntities, goalEntities,
                 targetEntities, connections, bridges, projects, requests,
                 responses, error>>

Components ==
  \/ GenerateComponentRecommendations
  \/ GetVenueRecommendationsResume
  \/ GetContentRecommendationsResume
  \/ GetToolRecommendationsResume
  \/ GetCommunityRecommendationsResume
  \/ ComponentRecommendationsJoin

Next == Discover \/ Enhance \/ Components

Spec == Init /\ [][Next]_vars

\* ------------------- discoverUnexpectedConnections invoked a second time
\* The engine holds nothing but its client and the client nothing but its
\* key and base URL, so a second invocation starts from fresh locals. The
\* caller repeats a resolved invocation with the same arguments; args keeps
\* the requests of the first one, and requests goes on as the log of what
\* was fetched.
DiscoverAgain ==
  /\ op = "discover"
  /\ pc = "resolved"
  /\ args = <<>>
  /\ args' = [userInterests |-> interests, targetDomain |-> targetDomain,
              requests |-> requests]
  /\ pc' = "resolveInterests"
  /\ idx' = 1
  /\ userEntities' = <<>>
  /\ targetEntities' = <<>>
  /\ connections' = <<>>
  /\ bridges' = <<>>
  /\ responses' = <<>>
  /\ result' = None
  /\ UNCHANGED <<componentVars, op, interests, targetDomain, context, goal,
                 goalEntities, projects, requests, error>>

NextRepeat == Discover \/ DiscoverAgain

SpecRepeat == Init /\ [][NextRepeat]_vars

\* ------------------------------ getTargetDomainEntities on its own inputs
\* The resolved entities getTargetDomainEntities can be handed: the result
\* of one search whose response has up to MaxUserEntities items, each with
\* an entity type, a tag type or no type.
TierTypeLists == {<<PLACE>>, <<"urn:tag:genre">>, <<>>}

\* The domain labels it can be handed: any string; here labels of the
\* table, one that is not in it, and a name every object inherits.
TierDomains ==
  TargetDomains \cup {"music", "learning", "entertainment", "constructor"}

TierItems(n, kinds) ==
  [k \in 1..n |->
     [entity_id |-> Some("id-" \o ToString(k)), name |-> "name-" \o ToString(k),
      types |-> kinds[k], affinity |-> None]]

InitTier ==
  \E n \in 0..MaxUserEntities, dom \in TierDomains :
    \E kinds \in [1..n -> TierTypeLists] :
      /\ op = "discover"
      /\ pc = "target"
      /\ interests = <<"jazz">>
      /\ targetDomain = dom
      /\ context = [goalCategory |-> "", userLocation |-> None]
      /\ goal = ""
      /\ idx = 2
      /\ userEntities = SearchEntitiesResult([results |-> Some(TierItems(n, kinds))])
      /\ goalEntities = <<>>
      /\ targetEntities = <<>>
      /\ connections = <<>>
      /\ bridges = <<>>
      /\ projects = <<>>
      /\ requests = <<Request("/search",
                              SearchParams("jazz", None, Some(ResolveInterestsTake)))>>
      /\ responses = <<HttpOk([results |-> Some(TierItems(n, kinds))])>>
      /\ result = None
      /\ error = None
      /\ profile = NoProfile
      /\ fetches = [c \in Categories |-> IdleFetch]
      /\ overtaken = FALSE
      /\ args = <<>>

NextTier == GetTargetDomainEntities \/ GetTargetDomainEntitiesResume

SpecTier == InitTier /\ [][NextTier]_vars

\* ------------------------------- findSurpriseConnections on its own inputs
\* The lists findSurpriseConnections can be handed: up to MaxSurpriseUsers
\* resolved entities and up to MaxTargets target entities whose affinity is
\* absent, 0, 0.7, 0.75 or 0.9.
AffinityValues == {None, Some(0), Some(70), Some(75), Some(90)}

SurpriseUserItems(n) ==
  [k \in 1..n |->
     [entity_id |-> Some("u-" \o ToString(k)), name |-> "U" \o ToString(k),
      types |-> <<PLACE>>, affinity |-> None]]

SurpriseTargetItems(n, affs) ==
  [k \in 1..n |->
     [entity_id |-> Some("t"), id |-> None, name |-> "T",
      subtype |-> Some(PLACE), type |-> None,
      queryAffinity |-> None, affinity |-> affs[k]]]

InitSurprise ==
  \E nu \in 0..MaxSurpriseUsers, nt \in 0..MaxTargets :
    \E affs \in [1..nt -> AffinityValues] :
      /\ op = "discover"
      /\ pc = "surprise"
      /\ interests = <<"jazz">>
      /\ targetDomain = "fitness"
      /\ context = [goalCategory |-> "", userLocation |-> None]
      /\ goal = ""
      /\ idx = 2
      /\ userEntities = SearchEntitiesResult([results |-> Some(SurpriseUserItems(nu))])
      /\ goalEntities = <<>>
      /\ targetEntities =
           InsightResults([shape |-> "entities", entities |-> SurpriseTargetItems(nt, affs)])
      /\ connections = <<>>
      /\ bridges = <<>>
      /\ projects = <<>>
      /\ requests =
           <<Request("/search", SearchParams("jazz", None, Some(ResolveInterestsTake))),
             Request("/v2/insights",
                     InsightParams(TargetQuery("fitness",
                        SearchEntitiesResult([results |-> Some(SurpriseUserItems(nu))]))))>>
      /\ responses =
           <<HttpOk([results |-> Some(SurpriseUserItems(nu))]),
             HttpOk([shape |-> "entities", entities |-> SurpriseTargetItems(nt, affs)])>>
      /\ result = None
      /\ error = None
      /\ profile = NoProfile
      /\ fetches = [c \in Categories |-> IdleFetch]
      /\ overtaken = FALSE
      /\ args = <<>>

NextSurprise == FindSurpriseConnections

SpecSurprise == InitSurprise /\ [][NextSurprise]_vars

\* ------------------------------ calculateAverageAffinity on its own inputs
MaxAffinities == 3

\* 0.2 and 0.8 in hundredths, 0, and an entity without affinity
AverageAffinities == {None, Some(0), Some(20), Some(80)}

\* calculateAverageAffinity is about to be called on a normalised insights
\* result of up to MaxAffinities entities.
InitAverage ==
  \E n \in 0..MaxAffinities :
    \E affs \in [1..n -> AverageAffinities] :
      /\ op = "average"
      /\ pc = "average"
      /\ interests = <<>>
      /\ targetDomain = ""
      /\ context = [goalCategory |-> "", userLocation |-> None]
      /\ goal = ""
      /\ idx = 1
      /\ userEntities = <<>>
      /\ goalEntities = <<>>
      /\ targetEntities =
           InsightResults([shape |-> "entities", entities |-> SurpriseTargetItems(n, affs)])
      /\ connections = <<>>
      /\ bridges = <<>>
      /\ projects = <<>>
      /\ requests = <<>>
      /\ responses = <<>>
      /\ result = None
      /\ error = None
      /\ profile = NoProfile
      /\ fetches = [c \in Categories |-> IdleFetch]
      /\ overtaken = FALSE
      /\ args = <<>>

\* calculateAverageAffinity(entities) is called and returns.
CalculateAverageAffinityCall ==
  /\ pc = "average"
  /\ result' = Some(CalculateAverageAffinity(targetEntities))
  /\ pc' = "resolved"
  /\ UNCHANGED <<componentVars, inputVars, idx, userEntities, goalEntities,
                 targetEntities, connections, bridges, projects, requests,
                 responses, error>>

NextAverage == CalculateAverageAffinityCall

SpecAverage == InitAverage /\ [][NextAverage]_vars

\* --------------------------------------- QlooClient on its own inputs
\* The values a parameter map can hold, as makeRequest tells them apart.
Undefined == [t |-> "undefined"]
JsNull == [t |-> "null"]
JsArray(s) == [t |-> "array", v |-> s]
JsString(x) == [t |-> "string", v |-> x]
JsNumber(n) == [t |-> "number", v |-> n]
JsBoolean(b) == [t |-> "boolean", v |-> b]

\* value.toString() of a string, a number or a boolean
ValueToString(value) ==
  IF value.t = "number" THEN ToString(value.v)
  ELSE IF value.t = "boolean" THEN (IF value.v THEN "true" ELSE "false")
  ELSE value.v

\* a serialisation that appends one parameter per array element
AppendedValuesPerElement(value) ==
  IF value.t \in {"undefined", "null"} THEN <<>>
  ELSE IF value.t = "array" THEN value.v
  ELSE <<ValueToString(value)>>

\* makeRequest: what the forEach callback appends to url.searchParams for
\* one entry of the map: nothing for undefined and null, value.join(',')
\* for an array, value.toString() otherwise.
AppendedValues(value) ==
  IF value.t \in {"undefined", "null"} THEN <<>>
  ELSE IF value.t = "array" THEN <<JoinStrings(value.v, ",")>>
  ELSE <<ValueToString(value)>>

\* makeRequest: url.searchParams after the forEach, as the values appended
\* under each key (searchParams.getAll(key)); a key nothing was appended
\* under is absent.
BuildQuery(params) ==
  [k \in {key \in DOMAIN params : AppendedValues(params[key]) # <<>>} |->
     AppendedValues(params[k])]

\* what makeRequest is handed and what it fetches
Fetch(endpoint, params) ==
  [endpoint |-> endpoint, params |-> params, query |-> BuildQuery(params)]

\* the keys of searchEntities' and getInsights' maps that hold arrays,
\* numbers and booleans; every other key holds a string
ArrayKeys ==
  {"types", "signal.interests.entities", "signal.interests.tags",
   "signal.demographics.audiences", "filter.tags"}
NumberKeys ==
  {"take", "page", "filter.radius", "signal.location.radius",
   "filter.price_level.min", "filter.price_level.max",
   "filter.popularity.min", "filter.popularity.max",
   "filter.rating.min", "filter.rating.max"}
BooleanKeys == {"feature.explainability"}

\* the map of SearchParams or InsightParams with each value as the
\* JavaScript value it is
JsParams(params) ==
  [k \in DOMAIN params |->
     IF k \in ArrayKeys THEN JsArray(params[k])
     ELSE IF k \in NumberKeys THEN JsNumber(params[k])
     ELSE IF k \in BooleanKeys THEN JsBoolean(params[k])
     ELSE JsString(params[k])]

\* take: options.take || 20, page: options.page || 1
PagingParams(options) ==
  ("take" :> JsNumber(Val(OrNum(options.take, Some(DefaultTake)))))
  @@ ("page" :> JsNumber(Val(OrNum(options.page, Some(DefaultPage)))))

\* x?.length on an optional array
HasLength(o) == IsSome(o) /\ Len(Val(o)) > 0

\* getInsights: the members of options the orchestrators never pass:
\* signals.demographics.audiences, signals.location.radius, filters.tags
\* and filters.rating, each added under the same enclosing condition as
\* in InsightParams.
ExtraInsightParams(options, extra) ==
  (IF IsSome(options.signals) /\ IsSome(Val(options.signals).demographics)
      /\ HasLength(extra.audiences)
   THEN ("signal.demographics.audiences" :> JsArray(Val(extra.audiences)))
   ELSE <<>>)
  @@ (IF IsSome(options.signals) /\ IsSome(Val(options.signals).location)
         /\ TruthyNum(extra.radius)
      THEN ("signal.location.radius" :> JsNumber(Val(extra.radius)))
      ELSE <<>>)
  @@ (IF IsSome(options.filters) /\ HasLength(extra.tags)
      THEN ("filter.tags" :> JsArray(Val(extra.tags))) ELSE <<>>)
  @@ (IF IsSome(options.filters)
      THEN JsParams(RangeParams("filter.rating", extra.rating)) ELSE <<>>)

\* getInsights: the whole parameter map
GetInsightsParams(options, extra) ==
  JsParams(InsightParams(options)) @@ ExtraInsightParams(options, extra)

\* searchTags: the parameter map
SearchTagsParams(query, options) ==
  PagingParams(options)
  @@ (IF TruthyStr(query) THEN ("filter.query" :> JsString(Val(query))) ELSE <<>>)
  @@ (IF HasLength(options.tagTypes)
      THEN ("filter.tag.types" :> JsArray(Val(options.tagTypes))) ELSE <<>>)

\* findAudiences: the parameter map
FindAudiencesParams(options) ==
  PagingParams(options)
  @@ (IF HasLength(options.audienceTypes)
      THEN ("filter.audience.types" :> JsArray(Val(options.audienceTypes)))
      ELSE <<>>)

\* compareEntities: the parameter map; the two groups are entered as they
\* are
CompareEntitiesParams(groupA, groupB, options) ==
  ("a.signal.interests.entities" :> JsArray(groupA))
  @@ ("b.signal.interests.entities" :> JsArray(groupB))
  @@ PagingParams(options)
  @@ (IF HasLength(options.filterType)
      THEN ("filter.type" :> JsArray(Val(options.filterType))) ELSE <<>>)

\* getTrendingEntities: the parameter map
TrendingParams(entityType, options) ==
  ("type" :> JsString(entityType)) @@ PagingParams(options)

\* A location string is kept as the sequence of its characters, so that
\* the pattern of isCoordinates can be run over it.
Digits == {"0", "1", "2", "3", "4", "5", "6", "7", "8", "9"}

\* the string of a character sequence
StringOf(chars) == JoinStrings(chars, "")

\* isCoordinates: one step of /^-?\d+\.?\d*,-?\d+\.?\d*$/ as an automaton.
\* States: "lat" and "lon" before the optional sign, "latSigned" and
\* "lonSigned" after it, "latInt" and "lonInt" in \d+, "latFrac" and
\* "lonFrac" after the optional point, "fail" when no match is possible.
CoordStep(state, ch) ==
  CASE state = "lat" /\ ch = "-" -> "latSigned"
    [] state \in {"lat", "latSigned", "latInt"} /\ ch \in Digits -> "latInt"
    [] state = "latInt" /\ ch = "." -> "latFrac"
    [] state = "latFrac" /\ ch \in Digits -> "latFrac"
    [] state \in {"latInt", "latFrac"} /\ ch = "," -> "lon"
    [] state = "lon" /\ ch = "-" -> "lonSigned"
    [] state \in {"lon", "lonSigned", "lonInt"} /\ ch \in Digits -> "lonInt"
    [] state = "lonInt" /\ ch = "." -> "lonFrac"
    [] state = "lonFrac" /\ ch \in Digits -> "lonFrac"
    [] OTHER -> "fail"

RECURSIVE CoordRun(_, _)
CoordRun(state, chars) ==
  IF chars = <<>> THEN state
  ELSE CoordRun(CoordStep(state, Head(chars)), Tail(chars))

\* a check that accepts every string with a comma in it
IsCoordinatesAnyComma(location) ==
  \E k \in DOMAIN location : location[k] = ","

\* isCoordinates: coordPattern.test(location)
IsCoordinates(location) ==
  CoordRun("lat", location) \in {"lonInt", "lonFrac"}

\* searchEntities: the parameter map for a query, optional types and the
\* location, radius, take and page options
SearchEntitiesParams(query, types, options) ==
  JsParams(("page" :> Val(OrNum(options.page, Some(DefaultPage))))
           @@ SearchParams(query, types, options.take)
           @@ (IF IsSome(options.location) /\ Val(options.location) # <<>>
                  /\ IsCoordinates(Val(options.location))
               THEN ("filter.location" :> StringOf(Val(options.location)))
               ELSE <<>>)
           @@ (IF TruthyNum(options.radius)
               THEN ("filter.radius" :> Val(options.radius)) ELSE <<>>))

\* The arguments the Gateway's operations are called with.
GatewayPagings ==
  {[take |-> t, page |-> pg] : t \in {None, Some(0), Some(5)},
                               pg \in {None, Some(2)}}
GatewayTypeLists == {None, Some(<<>>), Some(<<PLACE>>), Some(<<PLACE, BOOK>>)}

\* The location strings searchEntities is called with: every string of up
\* to MaxLocationLen characters of a small alphabet, and the two strings of
\* the source, "Brooklyn, NY" and "40.726408,-73.994275".
MaxLocationLen == 4
LocationAlphabet == {"4", "7", ".", ",", "-", "N"}
RECURSIVE StringsUpTo(_)
StringsUpTo(n) ==
  IF n = 0 THEN {<<>>}
  ELSE StringsUpTo(n - 1) \cup
       {Append(s, c) : s \in {t \in StringsUpTo(n - 1) : Len(t) = n - 1},
                       c \in LocationAlphabet}
BrooklynNY == <<"B", "r", "o", "o", "k", "l", "y", "n", ",", " ", "N", "Y">>
ManhattanCoordinates ==
  <<"4", "0", ".", "7", "2", "6", "4", "0", "8", ",",
    "-", "7", "3", ".", "9", "9", "4", "2", "7", "5">>
GatewayLocations ==
  StringsUpTo(MaxLocationLen) \cup {BrooklynNY, ManhattanCoordinates}

\* the calls of searchEntities: every paging with and without types, and
\* every location with and without a radius
SearchCalls ==
  {[query |-> q, types |-> ty,
    options |-> [location |-> None, radius |-> None,
                 take |-> pg.take, page |-> pg.page]] :
     q \in {"", "jazz"}, ty \in GatewayTypeLists, pg \in GatewayPagings}
  \cup
  {[query |-> "jazz", types |-> None,
    options |-> [location |-> loc, radius |-> ra, take |-> None, page |-> None]] :
     loc \in {Some(l) : l \in GatewayLocations}, ra \in {None, Some(10)}}
GatewayGroups == {<<>>, <<"e1">>, <<"e1", "e2">>}
GatewayStringLists == {None, Some(<<>>), Some(<<"x1", "x2">>)}

GatewaySignals ==
  {None} \cup
  {Some(Signals(es, ts, dem, loc)) :
     es \in GatewayStringLists,
     ts \in {None, Some(<<"urn:tag:genre:jazz">>)},
     dem \in {None, Some([age |-> Some("25_to_29"), gender |-> None])},
     loc \in {None, Some([query |-> None, coordinates |-> Some("40.7,-74.0")])}}

GatewayFilters ==
  {None,
   Some([location |-> Some("Austin, TX"),
         priceLevel |-> Some([min |-> Some(1), max |-> None]),
         popularity |-> None])}

GatewayExtras ==
  {[audiences |-> au, radius |-> ra, tags |-> tg, rating |-> rt] :
     au \in GatewayStringLists,
     ra \in {None, Some(10)},
     tg \in {None, Some(<<>>)},
     rt \in {None, Some([min |-> Some(4), max |-> None])}}

\* The parameter maps makeRequest is exercised with on its own: every
\* kind of value under its own key.
RawParams ==
  {("query" :> q) @@ ("take" :> t) @@ ("types" :> ty) @@ ("flag" :> f) :
     q \in {Undefined, JsString("jazz")},
     t \in {Undefined, JsNull, JsNumber(0), JsNumber(20)},
     ty \in {Undefined, JsNull, JsArray(<<>>), JsArray(<<"a">>),
             JsArray(<<"a", "b">>), JsArray(<<"a", "a">>)},
     f \in {Undefined, JsBoolean(TRUE), JsBoolean(FALSE)}}

\* Items the upstream can also send: a query.affinity of 0 beside an
\* affinity of 0.6, and affinities of 1.5 and -0.2.
InsightZeroQuery ==
  [entity_id |-> Some("i-zero"), id |-> None, name |-> "Gym D",
   subtype |-> Some(PLACE), type |-> Some(BRAND),
   queryAffinity |-> Some(0), affinity |-> Some(60)]
InsightOver ==
  [entity_id |-> Some("i-over"), id |-> None, name |-> "Gym E",
   subtype |-> Some(PLACE), type |-> None,
   queryAffinity |-> None, affinity |-> Some(150)]
ItemUnder ==
  [entity_id |-> Some("e-under"), name |-> "Under",
   types |-> <<PLACE>>, affinity |-> Some(0 - 20)]

\* The bodies of a 2xx answer to getInsights: results missing, results a
\* plain array, results an object whose entities is not an array, results
\* with an entities array, and a body that is the JSON value null.
GatewayInsightBodies ==
  {[shape |-> "missing", entities |-> <<>>],
   [shape |-> "array", entities |-> <<>>],
   [shape |-> "object", entities |-> <<>>],
   [shape |-> "entities", entities |-> <<>>],
   [shape |-> "entities", entities |-> <<InsightMid, InsightHigh, InsightLow>>],
   [shape |-> "entities", entities |-> <<InsightZeroQuery, InsightOver>>],
   [shape |-> "null", entities |-> <<>>]}

GatewayInsightOutcomes == {HttpOk(b) : b \in GatewayInsightBodies} \cup Failures

GatewaySearchOutcomes ==
  SearchOutcomes \cup {HttpOk([results |-> Some(<<ItemPlace, ItemUnder>>)])}

\* what the Gateway's own specification leaves alone
orchestratorVars ==
  <<componentVars, interests, targetDomain, context, goal, idx, userEntities,
    goalEntities, targetEntities, connections, bridges, projects>>

\* an operation hands its map to makeRequest, which builds the URL and
\* fetches it
Issue(name, endpoint, params) ==
  /\ op' = name
  /\ pc' = "fetching"
  /\ requests' = Append(requests, Fetch(endpoint, params))
  /\ UNCHANGED <<orchestratorVars, responses, result, error>>

\* an operation returns a value or throws
Settle(out, outcome) ==
  /\ responses' = Append(responses, out)
  /\ IF outcome.ok
     THEN /\ result' = Some(outcome.value)
          /\ pc' = "resolved"
          /\ UNCHANGED error
     ELSE /\ error' = Some(outcome.error)
          /\ pc' = "rejected"
          /\ UNCHANGED result
  /\ UNCHANGED <<orchestratorVars, op, args, requests>>

\* response.results || []
ResultsOrEmpty(outcome) ==
  IF outcome.ok
  THEN Ok(IF IsSome(outcome.value.results) THEN Val(outcome.value.results) ELSE <<>>)
  ELSE outcome

\* searchEntities: what it resolves or rejects with
SearchEntitiesOutcome(out) ==
  IF MakeRequest(out).ok
  THEN Ok(SearchEntitiesResult(MakeRequest(out).value))
  ELSE MakeRequest(out)

\* getInsights: what it resolves or rejects with.  Reading response.results
\* of a null body throws a TypeError that nothing in getInsights catches.
GetInsightsOutcome(out) ==
  IF ~MakeRequest(out).ok THEN MakeRequest(out)
  ELSE IF MakeRequest(out).value.shape = "null"
       THEN Err([kind |-> "TypeError"])
       ELSE Ok(InsightResults(MakeRequest(out).value))

\* makeRequest is called with a map of its own.
MakeRequestCall ==
  /\ pc = "idle"
  /\ \E params \in RawParams :
       /\ Issue("makeRequest", "/raw", params)
       /\ args' = [params |-> params]

MakeRequestReturn ==
  /\ pc = "fetching" /\ op = "makeRequest"
  /\ \E out \in SearchOutcomes : Settle(out, MakeRequest(out))

SearchEntitiesCall ==
  /\ pc = "idle"
  /\ \E call \in SearchCalls :
       /\ Issue("searchEntities", "/search",
                SearchEntitiesParams(call.query, call.types, call.options))
       /\ args' = call

SearchEntitiesReturn ==
  /\ pc = "fetching" /\ op = "searchEntities"
  /\ \E out \in GatewaySearchOutcomes : Settle(out, SearchEntitiesOutcome(out))

GetInsightsCall ==
  /\ pc = "idle"
  /\ \E signals \in GatewaySignals, filters \in GatewayFilters,
        take \in {None, Some(5)}, explainability \in {None, Some(TRUE)},
        extra \in GatewayExtras :
       /\ Issue("getInsights", "/v2/insights",
                GetInsightsParams(
                  InsightOptions(PLACE, signals, filters, take, explainability),
                  extra))
       /\ args' = [options |-> InsightOptions(PLACE, signals, filters, take,
                                              explainability),
                   extra |-> extra]

GetInsightsReturn ==
  /\ pc = "fetching" /\ op = "getInsights"
  /\ \E out \in GatewayInsightOutcomes : Settle(out, GetInsightsOutcome(out))

SearchTagsCall ==
  /\ pc = "idle"
  /\ \E query \in {None, Some(""), Some("jazz")},
        tagTypes \in GatewayStringLists, paging \in GatewayPagings :
       /\ Issue("searchTags", "/v2/tags",
                SearchTagsParams(query,
                  [tagTypes |-> tagTypes, take |-> paging.take, page |-> paging.page]))
       /\ args' = [query |-> query,
                   options |-> [tagTypes |-> tagTypes, take |-> paging.take,
                                page |-> paging.page]]

SearchTagsReturn ==
  /\ pc = "fetching" /\ op = "searchTags"
  /\ \E out \in SearchOutcomes : Settle(out, ResultsOrEmpty(MakeRequest(out)))

FindAudiencesCall ==
  /\ pc = "idle"
  /\ \E audienceTypes \in GatewayStringLists, paging \in GatewayPagings :
       /\ Issue("findAudiences", "/v2/audiences",
                FindAudiencesParams(
                  [audienceTypes |-> audienceTypes, take |-> paging.take,
                   page |-> paging.page]))
       /\ args' = [options |-> [audienceTypes |-> audienceTypes,
                                take |-> paging.take, page |-> paging.page]]

FindAudiencesReturn ==
  /\ pc = "fetching" /\ op = "findAudiences"
  /\ \E out \in SearchOutcomes : Settle(out, ResultsOrEmpty(MakeRequest(out)))

CompareEntitiesCall ==
  /\ pc = "idle"
  /\ \E groupA \in GatewayGroups, groupB \in GatewayGroups,
        filterType \in GatewayTypeLists, paging \in GatewayPagings :
       /\ Issue("compareEntities", "/v2/insights/compare",
                CompareEntitiesParams(groupA, groupB,
                  [filterType |-> filterType, take |-> paging.take,
                   page |-> paging.page]))
       /\ args' = [groupA |-> groupA, groupB |-> groupB,
                   options |-> [filterType |-> filterType, take |-> paging.take,
                                page |-> paging.page]]

CompareEntitiesReturn ==
  /\ pc = "fetching" /\ op = "compareEntities"
  /\ \E out \in SearchOutcomes : Settle(out, MakeRequest(out))

GetTrendingEntitiesCall ==
  /\ pc = "idle"
  /\ \E entityType \in {PLACE, BOOK}, options \in GatewayPagings :
       /\ Issue("getTrendingEntities", "/trends/category",
                TrendingParams(entityType, options))
       /\ args' = [entityType |-> entityType, options |-> options]

GetTrendingEntitiesReturn ==
  /\ pc = "fetching" /\ op = "getTrendingEntities"
  /\ \E out \in SearchOutcomes : Settle(out, ResultsOrEmpty(MakeRequest(out)))

NextGateway ==
  \/ MakeRequestCall
  \/ MakeRequestReturn
  \/ SearchEntitiesCall
  \/ SearchEntitiesReturn
  \/ GetInsightsCall
  \/ GetInsightsReturn
  \/ SearchTagsCall
  \/ SearchTagsReturn
  \/ FindAudiencesCall
  \/ FindAudiencesReturn
  \/ CompareEntitiesCall
  \/ CompareEntitiesReturn
  \/ GetTrendingEntitiesCall
  \/ GetTrendingEntitiesReturn

SpecGateway == Init /\ [][NextGateway]_vars

\* ------------------- a profile, the insight query built from it, its URL
MaxProfileInterests == 6

\* The interests a profile is built from ("Entity IDs or names"), as their
\* characters: two ids and a name that holds a comma.
InterestIds == {<<"e", "1">>, <<"e", "2">>, <<"a", ",", "b">>}

InterestIdLists ==
  UNION {[1..n -> InterestIds] : n \in 0..MaxProfileInterests}

\* the argument of createUserTasteProfile
TasteProfileData(ids) ==
  [interests |-> [k \in DOMAIN ids |-> StringOf(ids[k])],
   age |-> Some("25_to_29"), gender |-> None,
   location |-> Some("Austin, TX"), coordinates |-> None,
   priceRange |-> None]

\* the getInsights options the component generator builds from a profile
ProfileQueries(userProfile) ==
  {VenueQuery(userProfile, ctx) : ctx \in ProjectContexts}
  \cup {ContentQuery(ContentTypes[k], userProfile) : k \in DOMAIN ContentTypes}
  \cup {ToolQuery(userProfile), CommunityQuery(userProfile)}

NoExtras == [audiences |-> None, radius |-> None, tags |-> None, rating |-> None]

\* createUserTasteProfile is about to be called on drawn data.
InitRoundTrip ==
  \E ids \in InterestIdLists :
      /\ op = "createUserTasteProfile"
      /\ pc = "idle"
      /\ args = TasteProfileData(ids)
      /\ interests = <<>>
      /\ targetDomain = ""
      /\ context = [goalCategory |-> "", userLocation |-> None]
      /\ goal = ""
      /\ idx = 1
      /\ userEntities = <<>>
      /\ goalEntities = <<>>
      /\ targetEntities = <<>>
      /\ connections = <<>>
      /\ bridges = <<>>
      /\ projects = <<>>
      /\ requests = <<>>
      /\ responses = <<>>
      /\ result = None
      /\ error = None
      /\ profile = NoProfile
      /\ fetches = [c \in Categories |-> IdleFetch]
      /\ overtaken = FALSE

\* createUserTasteProfile(data) returns the profile.
CreateUserTasteProfileCall ==
  /\ pc = "idle"
  /\ profile' = CreateUserTasteProfile(args)
  /\ pc' = "profiled"
  /\ UNCHANGED <<inputVars, fetches, overtaken, idx, userEntities,
                 goalEntities, targetEntities, connections, bridges, projects,
                 requests, responses, result, error>>

\* One of the generator's queries is built from the profile and handed to
\* getInsights, which hands its map to makeRequest.
ProfileInsightQuery ==
  /\ pc = "profiled"
  /\ \E options \in ProfileQueries(profile) :
       requests' = <<Fetch("/v2/insights", GetInsightsParams(options, NoExtras))>>
  /\ pc' = "queried"
  /\ UNCHANGED <<inputVars, componentVars, idx, userEntities,
                 goalEntities, targetEntities, connections, bridges, projects,
                 responses, result, error>>

NextRoundTrip ==
  \/ CreateUserTasteProfileCall
  \/ ProfileInsightQuery

SpecRoundTrip == InitRoundTrip /\ [][NextRoundTrip]_vars

\* ------------- the enhance_goal_with_cultural_insights tool's fit score
DefaultFitScore == 70

\* Math.round of the quotient num / den (den > 0): the nearest integer,
\* a tie going up
MathRound(num, den) == (2 * num + den) \div (2 * den)

\* the product of the denominators of the projects' affinityScore
RECURSIVE ScoreDenominator(_)
ScoreDenominator(ps) ==
  IF ps = <<>> THEN 1
  ELSE Head(ps).affinityScore.den * ScoreDenominator(Tail(ps))

\* the sum of project.affinityScore * 100 over the projects, as a numerator
\* over the denominator den (affinities are held in hundredths)
RECURSIVE ProjectScores(_, _)
ProjectScores(ps, den) ==
  IF ps = <<>> THEN 0
  ELSE Head(ps).affinityScore.num * (den \div Head(ps).affinityScore.den)
       + ProjectScores(Tail(ps), den)

\* the sum of connection.strength * 100 over the connections
RECURSIVE ConnectionScores(_)
ConnectionScores(cs) ==
  IF cs = <<>> THEN 0 ELSE Head(cs).strength + ConnectionScores(Tail(cs))

\* calculateCulturalFitScore: Math.round(totalScore / count), or 70 when
\* there is neither a project nor a connection; the quotient is exact here,
\* where the program computes it in floating point.
CalculateCulturalFitScore(insights) ==
  LET ps == insights.personalizedProjects
      cs == insights.crossDomainConnections
      count == Len(ps) + Len(cs)
      den == ScoreDenominator(ps)
  IN IF count > 0
     THEN MathRound(ProjectScores(ps, den) + ConnectionScores(cs) * den,
                    den * count)
     ELSE DefaultFitScore

\* The culturalAlignment lists a project can hold: the normalised results of
\* the bodies getInsights can be answered with, one of them with an affinity
\* below 0.
FitScoreAlignments ==
  {InsightResults(body) : body \in {b \in GatewayInsightBodies : b.shape # "null"}}
  \cup {InsightResults([shape |-> "entities",
                        entities |-> <<[InsightOver EXCEPT !.affinity = Some(0 - 20)]>>])}

\* enhanceGoalWithCulturalInsights has returned to the tool: up to four
\* projects, in the order of their types, and the synthetic connection or
\* none.
InitFitScore ==
  \E n \in 0..Len(ProjectTypes) :
    \E aligned \in [1..n -> FitScoreAlignments],
       users \in {<<>>, <<SearchItemToEntity(ItemPlace)>>} :
      /\ op = "enhanceGoalTool"
      /\ pc = "score"
      /\ projects = [k \in 1..n |->
                       [projectName |-> ProjectName(ProjectTypes[k]),
                        culturalAlignment |-> aligned[k],
                        affinityScore |-> CalculateAverageAffinity(aligned[k])]]
      /\ userEntities = users
      /\ goalEntities = <<SearchItemToEntity(ItemPlace)>>
      /\ connections = FindCrossDomainConnectionsResult(users, goalEntities)
      /\ interests = <<>>
      /\ targetDomain = ""
      /\ context = [goalCategory |-> "", userLocation |-> None]
      /\ goal = ""
      /\ idx = 1
      /\ targetEntities = <<>>
      /\ bridges = <<>>
      /\ requests = <<>>
      /\ responses = <<>>
      /\ result = None
      /\ error = None
      /\ profile = NoProfile
      /\ fetches = [c \in Categories |-> IdleFetch]
      /\ overtaken = FALSE
      /\ args = <<>>

\* the tool computes culturalFitScore from the insights and returns it
CalculateCulturalFitScoreCall ==
  /\ pc = "score"
  /\ result' = Some([culturalFitScore |->
                       CalculateCulturalFitScore(
                         [culturalRecommendations |-> goalEntities,
                          personalizedProjects |-> projects,
                          crossDomainConnections |-> connections])])
  /\ pc' = "resolved"
  /\ UNCHANGED <<componentVars, inputVars, idx, userEntities, goalEntities,
                 targetEntities, connections, bridges, projects, requests,
                 responses, error>>

NextFitScore == CalculateCulturalFitScoreCall

SpecFitScore == InitFitScore /\ [][NextFitScore]_vars

\* ------------------------------------------------------------ properties
IsSearch(r) == r.endpoint = "/search"
IsInsights(r) == r.endpoint = "/v2/insights"
Failed(out) == out.kind # "ok"

\* the error a failed upstream answer surfaces as
ErrorCarries(e, out) ==
  IF out.kind = "http"
  THEN e.kind = "Error" /\ e.status = out.status /\ e.body = out.text
  ELSE e.kind = "NetworkError"

Resolving ==
  pc \in {"resolveInterests", "resolveInterestsWait",
          "resolveUserInterests", "resolveUserInterestsWait"}

\* the resolver has gone through all its interests without a failure
ResolverReturned ==
  /\ op \in {"discover", "enhance"}
  /\ ~Resolving
  /\ Len(responses) >= Len(interests)
  /\ \A k \in 1..Len(interests) : ~Failed(responses[k])

\* the searches the resolver issued: those without a types parameter
ResolverRequests ==
  SelectSeq(requests, LAMBDA r : IsSearch(r) /\ "types" \notin DOMAIN r.params)

\* C6: for an interest list of length N the resolver (resolveInterests and
\* resolveUserInterests) issues its searches one per interest in input
\* order, never having more than one request outstanding, and when it
\* returns it has issued exactly N of them and its result is the
\* concatenation of the per-interest results in interest order.
ResolverOneSearchPerInterestInOrder ==
  op \in {"discover", "enhance"} =>
  /\ Len(requests) - Len(responses) \in {0, 1}
  /\ Len(ResolverRequests) <= Len(interests)
  /\ \A k \in 1..Len(ResolverRequests) :
       /\ requests[k] = ResolverRequests[k]
       /\ ResolverRequests[k].params["query"] = interests[k]
  /\ ResolverReturned =>
       /\ Len(ResolverRequests) = Len(interests)
       /\ userEntities =
            Flatten([k \in 1..Len(interests) |->
                       SearchEntitiesResult(responses[k].body)])

ResolverConcatenatedTwoBatches ==
  /\ ResolverReturned
  /\ Len(interests) >= 2
  /\ Len(SearchEntitiesResult(responses[1].body)) = 1
  /\ Len(SearchEntitiesResult(responses[2].body)) = 2
  /\ Len(userEntities) = 3

\* C7: when the search for the k-th interest fails the resolver's caller
\* is rejected with that error, nothing is returned, and the k-th search
\* is the last request issued.
ResolverFailFast ==
  \A k \in 1..Min(Len(responses), Len(interests)) :
    Failed(responses[k]) =>
      /\ pc = "rejected"
      /\ IsSome(error) /\ ErrorCarries(Val(error), responses[k])
      /\ result = None
      /\ Len(requests) = k

ResolverFailedOnSecondInterest ==
  /\ Len(interests) >= 2
  /\ Len(responses) = 2
  /\ ~Failed(responses[1])
  /\ Failed(responses[2])
  /\ pc = "rejected"

\* C5: every result of discoverUnexpectedConnections has exactly one domain
\* bridge, from "user_interests" to the given target domain, with no bridge
\* entities and exactly three insight strings.
DiscoverResultHasOneSyntheticBridge ==
  (op = "discover" /\ IsSome(result)) =>
    LET b == Val(result).domainBridges IN
      /\ Len(b) = 1
      /\ b[1].domain1 = "user_interests"
      /\ b[1].domain2 = targetDomain
      /\ b[1].bridgeEntities = <<>>
      /\ Len(b[1].insights) = 3

DiscoverResolvedWithoutInterests ==
  /\ op = "discover"
  /\ IsSome(result)
  /\ interests = <<>>
  /\ Len(Val(result).domainBridges) = 1

\* the number of searches enhanceGoalWithCulturalInsights makes before its
\* project queries
EnhanceSearchCount == Len(interests) + Len(GoalEntityTypes(context.goalCategory))

DiscoverAllOrNothing ==
  op = "discover" =>
    \A k \in DOMAIN responses :
      Failed(responses[k]) =>
        /\ pc = "rejected"
        /\ IsSome(error) /\ ErrorCarries(Val(error), responses[k])
        /\ result = None
        /\ Len(requests) = k

DiscoverRejectedByInsightsFailure ==
  /\ op = "discover"
  /\ Len(interests) >= 1
  /\ Len(responses) = Len(interests) + 1
  /\ Failed(responses[Len(responses)])
  /\ pc = "rejected"
  /\ result = None

\* the classification of the resolved entities, counted position by position
RealCount ==
  Cardinality({k \in DOMAIN userEntities : userEntities[k].type \notin TagTypes})
TagCount ==
  Cardinality({k \in DOMAIN userEntities : userEntities[k].type \in TagTypes})

InsightRequests == SelectSeq(requests, IsInsights)

SignalKeys ==
  {"signal.interests.entities", "signal.interests.tags",
   "signal.demographics.age", "signal.demographics.gender",
   "signal.demographics.audiences", "signal.location.query",
   "signal.location", "signal.location.radius"}

\* which of the three queries a parameter map is
TierOfParams(p) ==
  IF DOMAIN p \cap SignalKeys = {"signal.location.query"} THEN "location"
  ELSE IF DOMAIN p \cap SignalKeys = {"signal.interests.tags"} THEN "tags"
  ELSE IF DOMAIN p \cap SignalKeys = {} THEN "plain"
  ELSE "other"

TierOfClassification ==
  IF RealCount = 0 THEN "location"
  ELSE IF TagCount > 0 THEN "tags" ELSE "plain"

TargetQueryIssued ==
  op = "discover" /\ pc \in {"targetWait", "surprise", "rejected"}

\* C1: getTargetDomainEntities issues exactly one getInsights call, chosen
\* by the real/tag classification alone: no real entity gives the
\* location-only query on the default location, a real and a tag entity
\* give the tag-signal query, real entities without tags give the query
\* without signals.
TierIsFunctionOfClassification ==
  /\ (op = "discover" /\ pc = "target") => Len(InsightRequests) = 0
  /\ TargetQueryIssued =>
       /\ Len(InsightRequests) = 1
       /\ TierOfParams(InsightRequests[1].params) = TierOfClassification
       /\ RealCount = 0 =>
            InsightRequests[1].params["signal.location.query"] = FallbackLocation

TagOnlyListTookLocationTier ==
  /\ TargetQueryIssued
  /\ Len(responses) = 2
  /\ RealCount = 0
  /\ TagCount >= 2
  /\ TierOfParams(InsightRequests[1].params) = "location"

\* the position in the resolved list of the j-th tag entity
TagPosition(j) ==
  CHOOSE i \in DOMAIN userEntities :
    /\ userEntities[i].type \in TagTypes
    /\ Cardinality({m \in 1..i : userEntities[m].type \in TagTypes}) = j

\* C2: in the tag-signal tier the tags signal is the ids of the first
\* min(5, k) tag entities in resolved order, at most five of them, and
\* explainability is switched on.
TagTierSignalsFirstFiveTags ==
  (TargetQueryIssued /\ RealCount > 0 /\ TagCount > 0) =>
    LET p == InsightRequests[1].params IN
      /\ "signal.interests.tags" \in DOMAIN p
      /\ Len(p["signal.interests.tags"]) <= 5
      /\ p["signal.interests.tags"] =
           [j \in 1..Min(5, TagCount) |-> userEntities[TagPosition(j)].id]
      /\ "feature.explainability" \in DOMAIN p
      /\ p["feature.explainability"] = TRUE

TagTierWithSixTags ==
  /\ TargetQueryIssued
  /\ RealCount > 0
  /\ TagCount >= 6
  /\ Len(InsightRequests[1].params["signal.interests.tags"]) = 5

\* the pairs findSurpriseConnections is to keep, as positions in the lists
SurprisePairs ==
  {q \in (1..Min(3, Len(userEntities))) \X (1..Min(5, Len(targetEntities))) :
     /\ IsSome(targetEntities[q[2]].affinity)
     /\ Val(targetEntities[q[2]].affinity) > 70}

SurpriseTriple(q) ==
  <<userEntities[q[1]].name, targetEntities[q[2]],
    Val(targetEntities[q[2]].affinity)>>

ConnectionTriples ==
  [k \in DOMAIN connections |->
     <<connections[k].fromInterest, connections[k].toRecommendation,
       connections[k].connectionStrength>>]

SurpriseDone == op = "discover" /\ pc \in {"bridges", "trending", "resolved"}

\* C3: findSurpriseConnections returns one record for exactly the pairs of
\* one of the first 3 user entities and one of the first 5 target entities
\* with affinity above 0.7, carrying the user entity's name, the target
\* entity and its affinity; so at most 15 records.
SurpriseConnectionsAreTheStrongPairs ==
  SurpriseDone =>
    /\ Len(connections) = Cardinality(SurprisePairs)
    /\ Len(connections) <= 15
    /\ \A q \in SurprisePairs :
         Count(ConnectionTriples, SurpriseTriple(q)) =
           Cardinality({r \in SurprisePairs : SurpriseTriple(r) = SurpriseTriple(q)})

SurpriseCapsAndThresholdAtWork ==
  /\ SurpriseDone
  /\ Len(userEntities) > 3
  /\ Len(targetEntities) > 5
  /\ targetEntities[6].affinity = Some(90)
  /\ \E k \in 1..5 : targetEntities[k].affinity = Some(70)
  /\ \E k \in 1..5 : targetEntities[k].affinity = Some(0)
  /\ \E k \in 1..5 : targetEntities[k].affinity = None
  /\ Len(connections) = 3

\* C4: the list findSurpriseConnections returns is in descending order of
\* connectionStrength and holds the records the loops emitted, each as many
\* times as it was emitted.
SurpriseConnectionsSortedDescending ==
  SurpriseDone =>
    /\ \A k \in 1..(Len(connections) - 1) :
         connections[k].connectionStrength >= connections[k + 1].connectionStrength
    /\ Len(connections) = Len(EmittedConnections(userEntities, targetEntities))
    /\ \A k \in DOMAIN connections :
         Count(connections, connections[k]) =
           Count(EmittedConnections(userEntities, targetEntities), connections[k])

SurpriseSortReordered ==
  /\ SurpriseDone
  /\ Len(connections) >= 4
  /\ connections # EmittedConnections(userEntities, targetEntities)
  /\ connections[1].connectionStrength > connections[Len(connections)].connectionStrength

\* the list a category's own upstream answers determine: the normalised
\* results of its successful calls, in call order
OwnList(category) ==
  Flatten([k \in DOMAIN fetches[category].got |->
             IF Failed(fetches[category].got[k]) THEN <<>>
             ELSE InsightResults(fetches[category].got[k].body)])

\* C10: generateComponentRecommendations never rejects on an upstream
\* failure; for every combination of succeeding and failing getInsights
\* calls it resolves with the four keys venues, content, tools and
\* communities, each the list that category's own answers determine.
ComponentsAlwaysComplete ==
  op = "components" =>
    /\ pc # "rejected"
    /\ error = None
    /\ pc = "resolved" =>
         /\ IsSome(result)
         /\ DOMAIN Val(result) = Categories
         /\ \A c \in Categories : Val(result)[c] = OwnList(c)

ComponentsResolvedWithFailedVenues ==
  /\ op = "components"
  /\ pc = "resolved"
  /\ Failed(fetches["venues"].got[1])
  /\ Val(result)["venues"] = <<>>
  /\ Len(Val(result)["tools"]) = 3
  /\ Failed(fetches["content"].got[2])
  /\ Len(Val(result)["content"]) = 6
  /\ Failed(fetches["communities"].got[1])

\* the filter.type of the first four requests, in issue order
FirstFourTypes ==
  [k \in 1..4 |-> requests[k].params["filter.type"]]

\* C11: in generateComponentRecommendations the four category fetches are
\* started together, before any of them has an answer, in array order;
\* each fetch's list is determined by its own answers alone; the result
\* exists only once all four have returned, and then each key holds the
\* list of the fetch at that key's position, whatever the order in which
\* the upstream answered.
ComponentsJoinIsPositional ==
  op = "components" =>
    /\ Len(requests) >= 4
    /\ FirstFourTypes = <<PLACE, BOOK, BRAND, DESTINATION>>
    /\ (\A c \in Categories : fetches[c].got = <<>>) =>
         /\ Len(requests) = 4
         /\ \A c \in Categories : fetches[c].pc = "waiting"
    /\ \A c \in Categories : fetches[c].value = OwnList(c)
    /\ IsSome(result) =>
         /\ \A c \in Categories : fetches[c].pc = "done"
         /\ Len(fetches["content"].got) = Len(ContentTypes)
         /\ \A c \in Categories \ {"content"} : Len(fetches[c].got) = 1
         /\ Val(result).venues = OwnList("venues")
         /\ Val(result).content = OwnList("content")
         /\ Val(result).tools = OwnList("tools")
         /\ Val(result).communities = OwnList("communities")

\* resolved after the upstream answered out of array order, with the four
\* lists all different
ComponentsResolvedOutOfOrder ==
  /\ op = "components"
  /\ pc = "resolved"
  /\ overtaken
  /\ Len(Val(result).venues) = 3
  /\ Len(Val(result).content) = 6
  /\ Val(result).tools = <<>>
  /\ Failed(fetches["tools"].got[1])
  /\ Val(result).communities = <<>>
  /\ ~Failed(fetches["communities"].got[1])

\* getGoalRelevantEntities has returned to enhanceGoalWithCulturalInsights
AggregatorReturned ==
  /\ op = "enhance"
  /\ pc \in {"connections", "projects", "projectsWait", "resolved"}

\* the queries of the aggregator: the searches that carry a types parameter
AggregatorRequests ==
  SelectSeq(requests, LAMBDA r : IsSearch(r) /\ "types" \in DOMAIN r.params)

\* the entity types the claim gives a goal category
CategoryTypes(category) ==
  LET table == [fitness |-> <<PLACE, BRAND, BOOK>>,
                business |-> <<BRAND, BOOK, PERSON>>,
                travel |-> <<DESTINATION, PLACE, BOOK>>,
                learning |-> <<BOOK, PODCAST, PERSON>>,
                creative |-> <<ARTIST, BOOK, MOVIE>>,
                social |-> <<PLACE, BRAND, DESTINATION>>]
  IN IF category \in DOMAIN table THEN table[category] ELSE <<PLACE>>

AggregatorPending == requests[Len(requests)]

\* C13 as stated: for each entity type of the category's list the
\* aggregator issues a getInsights call (the insights endpoint) with take
\* 10.
AggregatorQueriesInsights ==
  (op = "enhance" /\ pc = "goalEntitiesWait") =>
    /\ IsInsights(AggregatorPending)
    /\ AggregatorPending.params["take"] = 10

\* C13, amended: for each entity type of the category's list the
\* aggregator issues a searchEntities call (the /search endpoint) with the
\* goal text as query, that one type as types, and take 10.
AggregatorQueriesSearch ==
  (op = "enhance" /\ pc = "goalEntitiesWait") =>
    /\ IsSearch(AggregatorPending)
    /\ AggregatorPending.params["query"] = goal
    /\ AggregatorPending.params["types"] =
         <<CategoryTypes(context.goalCategory)[idx]>>
    /\ AggregatorPending.params["take"] = 10
    /\ AggregatorPending.params["page"] = 1
    /\ DOMAIN AggregatorPending.params = {"query", "types", "take", "page"}

\* the aggregator awaits the query of the third type of its list
AggregatorAwaitsThirdType ==
  /\ op = "enhance"
  /\ pc = "goalEntitiesWait"
  /\ idx = 3
  /\ AggregatorPending.params["types"] = <<BOOK>>

\* calculateAverageAffinity has returned
AverageDone == op = "average" /\ pc = "resolved"

\* the affinities of the entities the average was taken of
AveragedAffinities == [k \in DOMAIN targetEntities |-> targetEntities[k].affinity]

\* the sum of the first k affinities, a missing one counted as 0
RECURSIVE AffinitySumUpTo(_, _)
AffinitySumUpTo(affs, k) ==
  IF k = 0 THEN 0
  ELSE AffinitySumUpTo(affs, k - 1) + (IF IsSome(affs[k]) THEN Val(affs[k]) ELSE 0)

\* C14: calculateAverageAffinity returns 0 for an empty list and otherwise
\* the sum of the affinities, a missing one counted as 0, divided by the
\* number of all entities; [0.2, 0.8, missing] gives 1.0 / 3.
AverageIsSumOverCount ==
  AverageDone =>
    LET affs == AveragedAffinities
        avg == Val(result)
    IN /\ Len(affs) = 0 => (avg.num = 0 /\ avg.den = 1)
       /\ Len(affs) > 0 =>
            /\ avg.den = Len(affs)
            /\ avg.num = AffinitySumUpTo(affs, Len(affs))
       /\ affs = <<Some(20), Some(80), None>> => avg = [num |-> 100, den |-> 3]

\* the average of [0.2, 0.8, missing] has been taken
AverageOfTwoAndMissing ==
  /\ AverageDone
  /\ AveragedAffinities = <<Some(20), Some(80), None>>
  /\ Val(result) = [num |-> 100, den |-> 3]

\* the first k elements of s with a comma between neighbours
RECURSIVE CommaJoined(_, _)
CommaJoined(s, k) ==
  IF k = 0 THEN ""
  ELSE IF k = 1 THEN s[1]
  ELSE CommaJoined(s, k - 1) \o "," \o s[k]

\* how the claim says one defined value is written
Serialised(value) ==
  CASE value.t = "array" -> CommaJoined(value.v, Len(value.v))
    [] value.t = "string" -> value.v
    [] value.t = "number" -> ToString(value.v)
    [] value.t = "boolean" -> (IF value.v THEN "true" ELSE "false")

\* C15: in every request the Gateway builds, the keys of the query are the
\* keys of the map whose value is neither undefined nor null, each appears
\* once, an array is written as its elements joined by commas in order
\* ([a, b] as "a,b") and a scalar as its toString.
QueryHasEachDefinedKeyOnce ==
  \A i \in DOMAIN requests :
    LET params == requests[i].params
        query == requests[i].query
    IN /\ DOMAIN query =
            {k \in DOMAIN params : params[k].t \notin {"undefined", "null"}}
       /\ \A k \in DOMAIN query : query[k] = <<Serialised(params[k])>>
       /\ \A k \in DOMAIN params :
            /\ (params[k].t = "array" /\ params[k].v = <<"x1", "x2">>)
                 => query[k] = <<"x1,x2">>
            /\ (params[k].t = "number" /\ params[k].v = 20)
                 => query[k] = <<"20">>

\* a request built from a map with an undefined value, a null, a
\* two-element array and a boolean
QueryBuiltFromMixedMap ==
  /\ op = "makeRequest"
  /\ Len(requests) = 1
  /\ requests[1].params["query"] = Undefined
  /\ requests[1].params["take"] = JsNull
  /\ requests[1].params["types"] = JsArray(<<"a", "b">>)
  /\ requests[1].query = ("types" :> <<"a,b">>) @@ ("flag" :> <<"true">>)

\* the public operations of the Gateway
GatewayOperations ==
  {"searchEntities", "getInsights", "searchTags", "findAudiences",
   "compareEntities", "getTrendingEntities"}

\* C16 as stated: for every Gateway operation and every input, the
\* parameter map passed to the request contains no undefined value and no
\* empty array, and so no array is serialized as an empty value.
ParamsHoldNoUndefinedNoEmptyArray ==
  op \in GatewayOperations =>
    \A i \in DOMAIN requests :
      \A k \in DOMAIN requests[i].params :
        /\ requests[i].params[k].t \notin {"undefined", "null"}
        /\ requests[i].params[k].t = "array" =>
             /\ requests[i].params[k].v # <<>>
             /\ requests[i].query[k] # <<"">>

\* getInsights has been answered with a 2xx response
InsightsAnswered ==
  /\ op = "getInsights"
  /\ Len(responses) = 1
  /\ responses[1].kind = "ok"

\* C17 as stated: getInsights never fails on a 2xx response because of its
\* shape: without a results.entities array the returned results is the
\* empty list, and with one it has one entity per item, in order.
InsightsNeverFailOnShape ==
  InsightsAnswered =>
    /\ pc = "resolved"
    /\ error = None
    /\ IsSome(result)
    /\ responses[1].body.shape # "entities" => Val(result) = <<>>
    /\ responses[1].body.shape = "entities" =>
         /\ Len(Val(result)) = Len(responses[1].body.entities)
         /\ \A k \in DOMAIN Val(result) :
              Val(result)[k] = InsightItemToEntity(responses[1].body.entities[k])

\* C18: a non-2xx response makes the Gateway call fail with an error that
\* carries the response's status code and its body text, a transport
\* failure makes it fail with the transport error; either way the caller
\* gets no result, and the Gateway has made that one request only.
GatewayFailsWithUpstreamError ==
  (op \in GatewayOperations \cup {"makeRequest"}) =>
    /\ Len(requests) = 1
    /\ (Len(responses) = 1 /\ Failed(responses[1])) =>
         /\ pc = "rejected"
         /\ result = None
         /\ IsSome(error)
         /\ ErrorCarries(Val(error), responses[1])

\* getInsights rejected with the status and the body of a 403 response
GatewayRejectedWithForbidden ==
  /\ op = "getInsights"
  /\ pc = "rejected"
  /\ responses = <<HttpFail(403, "Forbidden")>>
  /\ Val(error) = [kind |-> "Error", status |-> 403, body |-> "Forbidden"]
  /\ result = None

\* the domains of getTrendingCrossovers' table and one outside it
TrendDomains ==
  {"fitness", "food", "travel", "entertainment", "music", "business",
   "creative", "learning", "gardening"}

\* C19: getTrendingCrossovers returns the empty list for every domain and
\* issues no upstream request: a resolved discoverUnexpectedConnections
\* has made its interest searches and its one insights query and nothing
\* else, and its trendingCrossOvers is empty.
TrendingCrossoversAlwaysEmpty ==
  /\ \A d \in TrendDomains : GetTrendingCrossoversResult(d) = <<>>
  /\ (op = "discover" /\ pc = "trending") =>
       /\ Len(requests) = Len(interests) + 1
       /\ Len(responses) = Len(requests)
  /\ (op = "discover" /\ IsSome(result)) =>
       /\ Val(result).trendingCrossOvers = <<>>
       /\ Len(requests) = Len(interests) + 1
       /\ Len(responses) = Len(requests)
       /\ IsInsights(requests[Len(requests)])
       /\ \A k \in 1..Len(interests) : IsSearch(requests[k])

\* a discovery for a domain of the table resolved with connections and no
\* trending crossovers
DiscoverResolvedWithoutTrending ==
  /\ op = "discover"
  /\ pc = "resolved"
  /\ targetDomain = "travel"
  /\ Len(Val(result).surpriseConnections) > 0
  /\ Val(result).trendingCrossOvers = <<>>

\* C20 as stated: every search of the Entity Resolver, on the
\* goal-enhancement path and on the discovery path, has a result cap of 5.
ResolverSearchesTakeFive ==
  op \in {"discover", "enhance"} =>
    \A k \in DOMAIN ResolverRequests : ResolverRequests[k].params["take"] = 5

\* C20, amended: every search of the Entity Resolver is bounded: take is 5
\* on the goal-enhancement path (resolveUserInterests) and 3 on the
\* discovery path (resolveInterests).
ResolverSearchesTakeFiveOrThree ==
  /\ op = "enhance" =>
       \A k \in DOMAIN ResolverRequests : ResolverRequests[k].params["take"] = 5
  /\ op = "discover" =>
       \A k \in DOMAIN ResolverRequests : ResolverRequests[k].params["take"] = 3

\* the discovery path awaits its second search, capped at 3
DiscoverySearchCappedAtThree ==
  /\ op = "discover"
  /\ pc = "resolveInterestsWait"
  /\ Len(ResolverRequests) = 2
  /\ ResolverRequests[2].params["take"] = 3

\* an optionally signed decimal number: an optional "-", then digits with
\* at most one point among them, the first character a digit
SignedDecimal(chars) ==
  LET body == IF chars # <<>> /\ chars[1] = "-" THEN Tail(chars) ELSE chars
  IN /\ body # <<>>
     /\ body[1] \in Digits
     /\ \A k \in DOMAIN body : body[k] \in Digits \cup {"."}
     /\ Cardinality({k \in DOMAIN body : body[k] = "."}) <= 1

\* a "lat,lon" pair: two optionally signed decimal numbers with one comma
\* between them
LatLonPair(chars) ==
  \E k \in DOMAIN chars :
    /\ chars[k] = ","
    /\ SignedDecimal(SubSeq(chars, 1, k - 1))
    /\ SignedDecimal(SubSeq(chars, k + 1, Len(chars)))

\* C21: searchEntities attaches filter.location if and only if a location
\* is given and it is a "lat,lon" pair of optionally signed decimal
\* numbers; the value attached is the location as given; a free-text place
\* such as "Brooklyn, NY" is never attached, and the search is issued all
\* the same.
SearchLocationOnlyWhenCoordinates ==
  op = "searchEntities" =>
    /\ Len(requests) = 1
    /\ requests[1].endpoint = "/search"
    /\ requests[1].params["query"] = JsString(args.query)
    /\ ("filter.location" \in DOMAIN requests[1].params) <=>
         (IsSome(args.options.location) /\ LatLonPair(Val(args.options.location)))
    /\ ("filter.location" \in DOMAIN requests[1].params) =>
         /\ requests[1].params["filter.location"] =
              JsString(StringOf(Val(args.options.location)))
         /\ requests[1].query["filter.location"] =
              <<StringOf(Val(args.options.location))>>
    /\ args.options.location = Some(BrooklynNY) =>
         "filter.location" \notin DOMAIN requests[1].query
    /\ args.options.location = Some(ManhattanCoordinates) =>
         requests[1].query["filter.location"] = <<"40.726408,-73.994275">>

\* a search with the location "Brooklyn, NY" was issued without a location
\* filter and has returned
SearchIssuedWithoutFreeTextLocation ==
  /\ op = "searchEntities"
  /\ pc = "resolved"
  /\ args.options.location = Some(BrooklynNY)
  /\ DOMAIN requests[1].query = {"query", "take", "page"}

\* an affinity that is absent or a number in [0, 1] (in hundredths)
InUnitRange(affinity) ==
  affinity = None \/ (Val(affinity) >= 0 /\ Val(affinity) <= 100)

\* C22 as stated: every entity returned by searchEntities or getInsights
\* has an affinity that is absent or a number in [0, 1], whatever the
\* upstream response contains.
ReturnedAffinitiesInUnitRange ==
  (op \in {"searchEntities", "getInsights"} /\ pc = "resolved") =>
    \A k \in DOMAIN Val(result) : InUnitRange(Val(result)[k].affinity)

\* getInsights has returned the normalisation of an entities array
InsightsNormalised ==
  /\ op = "getInsights"
  /\ pc = "resolved"
  /\ responses[1].body.shape = "entities"

\* C25 as stated: in the insights normalisation each item's affinity is
\* query.affinity whenever that field is present, a value of 0 included,
\* and item.affinity only when it is absent; id is entity_id when present,
\* else id; type is subtype when present, else type.
NormalisationTakesPresentFields ==
  InsightsNormalised =>
    \A k \in DOMAIN Val(result) :
      LET item == responses[1].body.entities[k]
          entity == Val(result)[k]
      IN /\ entity.affinity =
              (IF IsSome(item.queryAffinity) THEN item.queryAffinity
               ELSE item.affinity)
         /\ entity.id =
              (IF IsSome(item.entity_id) THEN item.entity_id ELSE item.id)
         /\ IsSome(item.subtype) => entity.type = Val(item.subtype)
         /\ (~IsSome(item.subtype) /\ IsSome(item.type)) =>
              entity.type = Val(item.type)

\* the characters of an interest string
CharsOfInterest(str) == CHOOSE chars \in InterestIds : StringOf(chars) = str

\* array.join(',') on the characters
RECURSIVE JoinChars(_)
JoinChars(ss) ==
  IF ss = <<>> THEN <<>>
  ELSE IF Len(ss) = 1 THEN ss[1]
  ELSE ss[1] \o <<",">> \o JoinChars(Tail(ss))

\* string.split(','): the pieces between the commas
RECURSIVE SplitOnCommas(_)
SplitOnCommas(chars) ==
  IF \A k \in DOMAIN chars : chars[k] # "," THEN <<chars>>
  ELSE LET first == CHOOSE k \in DOMAIN chars :
                      chars[k] = "," /\ \A j \in 1..(k - 1) : chars[j] # ","
       IN <<SubSeq(chars, 1, first - 1)>>
          \o SplitOnCommas(SubSeq(chars, first + 1, Len(chars)))

\* the signal.interests.entities field of a fetched URL, as characters
SerializedSignal(fetch) ==
  JoinChars([k \in DOMAIN fetch.params["signal.interests.entities"].v |->
               CharsOfInterest(fetch.params["signal.interests.entities"].v[k])])

\* the ids read back from the URL of a fetch; none when the field is absent
ParsedSignal(fetch) ==
  IF "signal.interests.entities" \in DOMAIN fetch.query
  THEN LET pieces == SplitOnCommas(SerializedSignal(fetch))
       IN [k \in DOMAIN pieces |-> StringOf(pieces[k])]
  ELSE <<>>

\* the model's character view of the field is the string makeRequest appends
SerializedSignalIsAppended(fetch) ==
  "signal.interests.entities" \in DOMAIN fetch.query =>
    fetch.query["signal.interests.entities"]
      = <<StringOf(SerializedSignal(fetch))>>

HasComma(str) ==
  \E k \in DOMAIN CharsOfInterest(str) : CharsOfInterest(str)[k] = ","

\* C23 as stated: for every profile built by createUserTasteProfile, the
\* signal.interests.entities field of an insight query built from it,
\* split on commas, is exactly the profile's interests, in order.
SignalRoundTripsAllInterests ==
  pc = "queried" => ParsedSignal(requests[1]) = profile.interests

\* C23 amended: the profile holds the interests it was built from; when no
\* interest holds a comma, the field split on commas is the first five
\* interests in order, and the field is absent exactly when there are none.
SignalRoundTripsFirstFive ==
  /\ pc # "idle" => profile.interests = args.interests
  /\ pc = "queried" =>
       /\ SerializedSignalIsAppended(requests[1])
       /\ ("signal.interests.entities" \in DOMAIN requests[1].query)
            <=> (profile.interests # <<>>)
       /\ (\A k \in DOMAIN profile.interests : ~HasComma(profile.interests[k]))
            => ParsedSignal(requests[1]) = Slice(profile.interests, 5)

\* a query built from six comma-free interests carries five of them
SixInterestsQueriedAsFive ==
  /\ pc = "queried"
  /\ Len(profile.interests) = 6
  /\ \A k \in DOMAIN profile.interests : ~HasComma(profile.interests[k])
  /\ Len(ParsedSignal(requests[1])) = 5

\* the request getTargetDomainEntities has issued
TargetRequestIssued == op = "discover" /\ pc \in {"targetWait", "surprise", "rejected"}
TargetRequest == requests[Len(requests)]

\* the tier the connector's query was built in
TargetTier ==
  IF Len(RealEntities(userEntities)) = 0 THEN "location"
  ELSE IF Len(TagIds(userEntities)) > 0 THEN "tags"
  ELSE "plain"

\* the five labels the statement lists, and place for every other label
ListedTargetType(domain) ==
  CASE domain = "fitness" -> PLACE
    [] domain = "travel" -> DESTINATION
    [] domain = "music" -> ARTIST
    [] domain = "business" -> PLACE
    [] domain = "learning" -> BOOK
    [] OTHER -> PLACE

TableTargetType(domain) ==
  CASE domain = "entertainment" -> MOVIE
    [] domain \in {"food", "creative"} -> PLACE
    [] OTHER -> ListedTargetType(domain)

EnhanceResolved == op = "enhance" /\ pc = "resolved"

\* the answers to the last four requests
LastFourAnswers == SubSeq(responses, Len(responses) - 3, Len(responses))

\* the record generateCulturallyAwareProjects pushes for the k-th project
\* type when its call succeeded with the given answer
ProjectOf(k, answer) ==
  [projectName |-> ProjectName(ProjectTypes[k]),
   culturalAlignment |-> InsightResults(MakeRequest(answer).value),
   affinityScore |->
     CalculateAverageAffinity(InsightResults(MakeRequest(answer).value))]

\* C26: generateCulturallyAwareProjects issues exactly four getInsights
\* calls, each after the answer to the one before, for discovery,
\* execution, community and learning; a failed call drops only its own
\* project, so personalizedProjects holds the 0 to 4 surviving records in
\* that order, each with the average affinity of its own culturalAlignment.
ProjectsAreTheSurvivingFour ==
  /\ op = "enhance" => Len(requests) - Len(responses) \in {0, 1}
  /\ EnhanceResolved =>
       LET calls == SelectSeq(requests, IsInsights)
           kept == SelectSeq(<<1, 2, 3, 4>>,
                             LAMBDA k : MakeRequest(LastFourAnswers[k]).ok)
       IN /\ Len(calls) = 4
          /\ SubSeq(requests, Len(requests) - 3, Len(requests)) = calls
          /\ \A k \in 1..4 :
               calls[k] = Request("/v2/insights",
                                  InsightParams(ProjectQuery(userEntities, context)))
          /\ Len(projects) \in 0..4
          /\ projects = [j \in 1..Len(kept) |->
                           ProjectOf(kept[j], LastFourAnswers[kept[j]])]
          /\ \A j \in DOMAIN projects :
               projects[j].affinityScore
                 = CalculateAverageAffinity(projects[j].culturalAlignment)
          /\ Val(result).personalizedProjects = projects

\* the execution and community calls failed; discovery and learning stayed
ProjectsLostTheMiddleTwo ==
  /\ EnhanceResolved
  /\ Len(projects) = 2
  /\ projects[1].projectName = "Discovery Project"
  /\ projects[2].projectName = "Learning Project"
  /\ projects[1].affinityScore # projects[2].affinityScore

\* the getInsights requests of getContentRecommendations
IsContentRequest(r) ==
  IsInsights(r) /\ r.params["filter.type"] \in {BOOK, PODCAST, MOVIE}

\* what one answer contributes to allContent
ContentOf(answer) ==
  IF MakeRequest(answer).ok THEN InsightResults(MakeRequest(answer).value)
  ELSE <<>>

\* C27: getContentRecommendations issues exactly three getInsights calls,
\* for book, podcast and movie in that order, whether or not earlier ones
\* fail; a failing type contributes nothing and the returned list is the
\* concatenation of the successful types' results in that order.
ContentIsConcatenationOfSuccesses ==
  op = "components" =>
    LET fetch == fetches["content"]
        calls == SelectSeq(requests, IsContentRequest)
    IN /\ Len(calls) = Min(fetch.idx, Len(ContentTypes))
       /\ \A k \in DOMAIN calls :
            calls[k] = Request("/v2/insights",
                               InsightParams(ContentQuery(ContentTypes[k], profile)))
       /\ Len(fetch.got) = fetch.idx - 1
       /\ fetch.pc = "done" <=> Len(fetch.got) = 3
       /\ fetch.value = Flatten([k \in DOMAIN fetch.got |-> ContentOf(fetch.got[k])])
       /\ pc = "resolved" => Val(result).content = fetch.value

\* the book call failed and the content category is still not empty
ContentSurvivedFailedBook ==
  /\ op = "components"
  /\ pc = "resolved"
  /\ ~MakeRequest(fetches["content"].got[1]).ok
  /\ MakeRequest(fetches["content"].got[3]).ok
  /\ Val(result).content # <<>>

\* the requests issued before the running invocation began
EarlierRequests == IF args = <<>> THEN <<>> ELSE args.requests

\* the requests of the running invocation
OwnRequests == SubSeq(requests, Len(EarlierRequests) + 1, Len(requests))

\* C28: a successful discoverUnexpectedConnections call with N interests
\* issues exactly N + 1 requests: the N searches in interest order, then one
\* insights request issued only after the last search was answered; nothing
\* is retried or served from a cache, so a failed call issues no further
\* request and two identical invocations issue 2(N + 1) requests.
DiscoverIssuesOnePerInterestPlusOne ==
  op = "discover" =>
    /\ Len(OwnRequests) - Len(responses) \in {0, 1}
    /\ \A k \in DOMAIN OwnRequests :
         IF k <= Len(interests)
         THEN OwnRequests[k] = Request("/search",
                SearchParams(interests[k], None, Some(ResolveInterestsTake)))
         ELSE /\ k = Len(interests) + 1
              /\ IsInsights(OwnRequests[k])
    /\ pc = "rejected" => Len(OwnRequests) = Len(responses)
    /\ pc = "resolved" =>
         /\ Len(OwnRequests) = Len(interests) + 1
         /\ Len(responses) = Len(interests) + 1
         /\ args # <<>> =>
              /\ Len(args.requests) = Len(interests) + 1
              /\ Len(requests) = 2 * (Len(interests) + 1)

\* two invocations with two interests have resolved after six requests
DiscoverTwiceIssuedSix ==
  /\ op = "discover"
  /\ pc = "resolved"
  /\ args # <<>>
  /\ Len(interests) = 2
  /\ Len(requests) = 6

\* the upstream items the resolved entities were mapped from
ResolvedItems == Val(responses[1].body.results)

\* C29: every entity searchEntities produces has a non-empty type, the
\* first upstream type or "unknown" when there is none, so
\* getTargetDomainEntities classifies every resolved entity as exactly one
\* of real or tag: the two lists are disjoint and their lengths add up to
\* the number of resolved entities.
ResolvedEntitiesAreRealOrTag ==
  (op = "discover" /\ pc \in {"target", "targetWait", "surprise", "rejected"}) =>
    /\ Len(userEntities) = Len(ResolvedItems)
    /\ \A k \in DOMAIN userEntities :
         /\ userEntities[k].type # ""
         /\ userEntities[k].type =
              (IF ResolvedItems[k].types # <<>> THEN ResolvedItems[k].types[1]
               ELSE "unknown")
         /\ IsRealEntity(userEntities[k]) # IsTagEntity(userEntities[k])
    /\ \A i \in DOMAIN RealEntities(userEntities) :
         \A j \in DOMAIN TagEntities(userEntities) :
           RealEntities(userEntities)[i] # TagEntities(userEntities)[j]
    /\ Len(RealEntities(userEntities)) + Len(TagEntities(userEntities))
         = Len(userEntities)

\* a query went out for a list holding a typed, an untyped and a tag entity
MixedListClassified ==
  /\ TargetRequestIssued
  /\ \E k \in DOMAIN userEntities : userEntities[k].type = "unknown"
  /\ \E k \in DOMAIN userEntities : userEntities[k].type = PLACE
  /\ Len(TagEntities(userEntities)) >= 1
  /\ Len(RealEntities(userEntities)) >= 2

\* the tool has returned its score
FitScoreReturned == op = "enhanceGoalTool" /\ pc = "resolved"

\* twice the mean of the scores lies in [2s - 1, 2s + 1): s is the mean
\* rounded to the nearest integer, a tie going up
IsRoundedMean(s, ps, cs) ==
  LET den == ScoreDenominator(ps)
      total == ProjectScores(ps, den) + ConnectionScores(cs) * den
      count == Len(ps) + Len(cs)
  IN /\ (2 * s - 1) * den * count <= 2 * total
     /\ 2 * total < (2 * s + 1) * den * count

\* C30 as stated: the culturalFitScore the tool returns is always an
\* integer between 0 and 100: the rounded mean of 100 times each project's
\* affinityScore and 100 times each connection's strength, and 70 when
\* there are neither projects nor connections.
FitScoreIsRoundedMeanInRange ==
  FitScoreReturned =>
    LET score == Val(result).culturalFitScore
    IN /\ score \in 0..100
       /\ IF Len(projects) + Len(connections) = 0 THEN score = 70
          ELSE IsRoundedMean(score, projects, connections)

====
